---- MODULE Spec2Model ----
(***************************************************************************)
(* A model of the render utilities of src/emu/rendutil.cpp: the texture    *)
(* resampler (render_resample_argb_bitmap_hq and its three samplers) and   *)
(* the geometry clippers (render_clip_line, render_clip_quad).             *)
(*                                                                         *)
(* Numbers.  u32/u64 quantities are integers; every model input is chosen  *)
(* so that no u32 expression of the code wraps.  A C++ float is an IEEE    *)
(* binary32 value, modelled by the record [m, e] standing for m * 2^e with *)
(* m odd (or m = 0, e = 0) and |m| < 2^24; +, -, *, / round to nearest,    *)
(* ties to even, as the hardware does.  Infinities, NaNs, subnormals and   *)
(* the sign of zero are not modelled: the inputs keep every result in the  *)
(* normal range.                                                           *)
(***************************************************************************)
EXTENDS Integers, Sequences, FiniteSets, TLC

(***************************************************************************)
(* binary32 arithmetic                                                     *)
(***************************************************************************)

\* significand width of binary32 (FLT_MANT_DIG)
MantBits == 24

RECURSIVE BitLen(_)
\* number of significant bits of n >= 0, eight at a time while it has more
BitLen(n) ==
    IF n = 0 THEN 0
    ELSE IF n >= 256 THEN 8 + BitLen(n \div 256)
    ELSE 1 + BitLen(n \div 2)

RECURSIVE Canon(_, _)
\* the record of m * 2^e with the trailing zero bits of m moved to e, eight
\* at a time while it has as many
Canon(m, e) ==
    IF m = 0 THEN [m |-> 0, e |-> 0]
    ELSE IF m % 256 = 0 THEN Canon(m \div 256, e + 8)
    ELSE IF m % 2 = 0 THEN Canon(m \div 2, e + 1)
    ELSE [m |-> m, e |-> e]

Abs(n) == IF n < 0 THEN -n ELSE n

Sgn(n) == IF n < 0 THEN -1 ELSE IF n > 0 THEN 1 ELSE 0

FNeg(a) == [m |-> -a.m, e |-> a.e]

\* round-to-nearest-even of (m + s) * 2^e, m >= 0, where s in [0,1) is zero
\* iff sticky is FALSE; when sticky is TRUE m has at least MantBits + 2 bits
FRound(m, e, sticky) ==
    LET L == BitLen(m)
    IN  IF L <= MantBits THEN Canon(m, e)
        ELSE LET sh   == L - MantBits
                 q    == m \div (2 ^ sh)
                 r    == m % (2 ^ sh)
                 half == 2 ^ (sh - 1)
                 up   == \/ r > half
                         \/ r = half /\ (sticky \/ q % 2 = 1)
             IN  Canon(IF up THEN q + 1 ELSE q, e + sh)

\* conversion of an integer (|n| < 2^31) to float
FInt(n) ==
    LET f == FRound(Abs(n), 0, FALSE)
    IN  IF n < 0 THEN FNeg(f) ELSE f

\* |a.m| aligned to exponent E: <<floor(|a| / 2^E), whether bits were dropped>>
FAlign(a, E) ==
    LET sh == a.e - E
        ma == Abs(a.m)
    IN  IF sh >= 0 THEN <<ma * (2 ^ sh), FALSE>>
        ELSE IF -sh >= MantBits THEN <<0, ma # 0>>
        ELSE <<ma \div (2 ^ (-sh)), ma % (2 ^ (-sh)) # 0>>

\* float addition a + b
FAdd(a, b) ==
    IF a.m = 0 THEN b
    ELSE IF b.m = 0 THEN a
    ELSE LET topa == a.e + BitLen(Abs(a.m))
             topb == b.e + BitLen(Abs(b.m))
             top  == IF topa > topb THEN topa ELSE topb
             E    == top - 30
             xa   == FAlign(a, E)
             xb   == FAlign(b, E)
             st   == xa[2] \/ xb[2]
             sa   == Sgn(a.m)
             sb   == Sgn(b.m)
         IN  IF sa = sb
             THEN LET f == FRound(xa[1] + xb[1], E, st)
                  IN  IF sa < 0 THEN FNeg(f) ELSE f
             ELSE \* opposite signs: big - small, the operand that lost bits is
                  \* the smaller one
                  LET big   == IF xa[1] >= xb[1] THEN xa ELSE xb
                      small == IF xa[1] >= xb[1] THEN xb ELSE xa
                      sbig  == IF xa[1] >= xb[1] THEN sa ELSE sb
                      d     == big[1] - small[1] - (IF st THEN 1 ELSE 0)
                      f     == FRound(d, E, st)
                  IN  IF sbig < 0 THEN FNeg(f) ELSE f

\* float subtraction a - b
FSub(a, b) == FAdd(a, FNeg(b))

\* the exact product of two significands below 2^24, as <<hi, lo>> with
\* product = hi * 2^24 + lo
MulWide(x, y) ==
    LET xh  == x \div 4096
        xl  == x % 4096
        yh  == y \div 4096
        yl  == y % 4096
        mid == xh * yl + xl * yh
        los == xl * yl + (mid % 4096) * 4096
    IN  <<xh * yh + (mid \div 4096) + (los \div 16777216), los % 16777216>>

\* float multiplication a * b
FMul(a, b) ==
    IF a.m = 0 \/ b.m = 0 THEN [m |-> 0, e |-> 0]
    ELSE LET ma == Abs(a.m)
             mb == Abs(b.m)
             neg == Sgn(a.m) # Sgn(b.m)
             f == IF BitLen(ma) + BitLen(mb) <= 31
                  THEN FRound(ma * mb, a.e + b.e, FALSE)
                  ELSE LET w  == MulWide(ma, mb)
                           Lh == BitLen(w[1])
                           k  == IF 30 - Lh < 24 THEN 30 - Lh ELSE 24
                           d  == 2 ^ (24 - k)
                       IN  FRound(w[1] * (2 ^ k) + (w[2] \div d),
                                  a.e + b.e + (24 - k), w[2] % d # 0)
         IN  IF neg THEN FNeg(f) ELSE f

RECURSIVE LongDiv(_, _, _, _)
\* k more quotient bits of (q + r/d), r < d < 2^24, six bits at a time:
\* <<quotient, remainder>>
LongDiv(q, r, d, k) ==
    IF k = 0 THEN <<q, r>>
    ELSE LET bits == IF k >= 6 THEN 6 ELSE k
             p    == 2 ^ bits
         IN  LongDiv(q * p + ((r * p) \div d), (r * p) % d, d, k - bits)

\* float division a / b, b # 0
FDiv(a, b) ==
    IF a.m = 0 THEN [m |-> 0, e |-> 0]
    ELSE LET ma == Abs(a.m)
             mb == Abs(b.m)
             neg == Sgn(a.m) # Sgn(b.m)
             k  == 26 + BitLen(mb) - BitLen(ma)
             qr == LongDiv(ma \div mb, ma % mb, mb, k)
             f  == FRound(qr[1], a.e - b.e - k, qr[2] # 0)
         IN  IF neg THEN FNeg(f) ELSE f

\* the sign of a - b (-1, 0 or 1), computed exactly
FCmp(a, b) ==
    IF Sgn(a.m) # Sgn(b.m) THEN Sgn(Sgn(a.m) - Sgn(b.m))
    ELSE IF a.m = 0 THEN 0
    ELSE LET topa == a.e + BitLen(Abs(a.m))
             topb == b.e + BitLen(Abs(b.m))
             E    == topa - MantBits
         IN  IF topa # topb THEN Sgn(a.m) * Sgn(topa - topb)
             ELSE Sgn(a.m) * Sgn(Abs(a.m) * (2 ^ (a.e - E))
                                 - Abs(b.m) * (2 ^ (b.e - E)))

\* a < b
FLt(a, b) == FCmp(a, b) < 0

\* a <= b
FLe(a, b) == FCmp(a, b) <= 0

\* <<hi, lo>> <= <<hi2, lo2>> for numbers written hi * 2^24 + lo
WideLe(x, y) == x[1] < y[1] \/ (x[1] = y[1] /\ x[2] <= y[2])

\* r with bit added when the square of that is at most n
RootStep(r, bit, n) ==
    IF bit # 0 /\ WideLe(MulWide(r + bit, r + bit), n) THEN r + bit ELSE r

RECURSIVE RootBits(_, _, _)
\* the largest r' >= r made of r and bits at or below bit with r'^2 <= n,
\* four bits at a time
RootBits(r, bit, n) ==
    IF bit = 0 THEN r
    ELSE LET r3   == RootStep(RootStep(RootStep(r, bit, n), bit \div 2, n),
                              bit \div 4, n)
             last == bit \div 8
         IN  IF last # 0 /\ WideLe(MulWide(r3 + last, r3 + last), n)
             THEN RootBits(r3 + last, bit \div 16, n)
             ELSE RootBits(r3, bit \div 16, n)

\* sqrtf(a), a >= 0: the square root rounded to nearest
FSqrt(a) ==
    IF a.m = 0 THEN a
    ELSE LET L   == BitLen(a.m)
             k   == IF (a.e - (48 - L)) % 2 = 0 THEN 48 - L ELSE 47 - L
             n   == IF k >= 24 THEN <<a.m * (2 ^ (k - 24)), 0>>
                    ELSE <<a.m \div 2, (a.m % 2) * 8388608>>
             r   == RootBits(0, 8388608, n)
             sq  == MulWide(r, r)
             rem == (n[1] - sq[1]) * 16777216 + (n[2] - sq[2])
         IN  Canon(IF rem > r THEN r + 1 ELSE r, (a.e - k) \div 2)

\* ceil(a) of a float 0 <= a < 2^31, as an integer
FCeil(a) ==
    IF a.e >= 0 THEN a.m * (2 ^ a.e)
    ELSE IF -a.e > 30 THEN 1
    ELSE (a.m + (2 ^ (-a.e)) - 1) \div (2 ^ (-a.e))

\* the conversion of a float 0 <= a < 2^31 to u32: truncation
FTrunc(a) ==
    IF a.e >= 0 THEN a.m * (2 ^ a.e)
    ELSE IF -a.e > 30 THEN 0
    ELSE a.m \div (2 ^ (-a.e))

(***************************************************************************)
(* State                                                                   *)
(***************************************************************************)

VARIABLES
    pc,        \* "call": arguments set, the function not yet entered;
               \* "loop": inside render_clip_line's while (true); "done"
    source,    \* bitmap_argb32 &source: [width, height, rowpixels, pix]
    dest,      \* bitmap_argb32 &dest
    dest0,     \* the destination as it was when the call was made
    color,     \* const render_color &color: [r, g, b, a] of floats
    force,     \* bool force
    sampler,   \* which resample_argb_bitmap_* ran: "none" before and after an
               \* early return, "trap" after an integer division by zero
    dx,        \* u32 dx handed to the sampler
    dy,        \* u32 dy handed to the sampler
    sreads,    \* the set of source pixel offsets the call read
    bounds,    \* render_bounds &bounds: [x0, y0, x1, y1] of floats
    bounds0,   \* bounds as it was when the call was made
    clip,      \* const render_bounds &clip
    texcoords, \* render_quad_texuv *texcoords, or NullTex for nullptr
    tex0,      \* texcoords as it was when the call was made
    rejected,  \* the function's return value
    nrepl,     \* endpoint replacements made by render_clip_line so far
    width,     \* float width of render_line_to_quad
    length_extension, \* float length_extension of render_line_to_quad
    quad,      \* the std::pair of render_bounds render_line_to_quad returns
    file,      \* util::random_read &file: [pos, size], offsets in bytes
    bitmap,    \* bitmap_argb32 &bitmap of the render_load_* functions
    bitmap0,   \* bitmap as it was when the call was made
    cinfo,     \* jpeg_decompress_struct cinfo and its jpeg_corefile_source
    buffer,    \* JSAMPARRAY buffer of render_load_jpeg and its allocations
    png,       \* util::png_info png of render_load_png
    overlay,   \* bool load_as_alpha_to_existing
    result,    \* the return value of render_detect_image / render_load_png
    log,       \* the calls made on collaborators so far, in order
    g1bus_regs,         \* uint32_t g1bus_regs[]: the registers the model uses
    dc_sysctrl_regs,    \* the bits set in dc_sysctrl_regs[SB_ISTNRM]
    atapi_xferlen,      \* the bytes atapi_xfer_end has still to transfer
    atapi_xferbase,     \* the destination of the next sector
    atapi_xfercomplete, \* the bytes transferred since the DMA was started
    atapi_timer,        \* emu_timer *atapi_timer: [enabled, param]
    dmack,     \* the level last written with m_ata->write_dmack
    ddt,       \* the destinations of the sh4_dma_ddt calls since the start
    quiet,     \* no register was written since the DMA was started
    devicelist, \* the rawinput_devices of the module, in order
    handled,   \* the return value of the last handle_input_event
    assertion  \* the function whose assert failed, or "none"

vars == <<pc, source, dest, dest0, color, force, sampler, dx, dy, sreads,
          bounds, bounds0, clip, texcoords, tex0, rejected, nrepl,
          width, length_extension, quad,
          file, bitmap, bitmap0, cinfo, buffer, png, overlay, result, log,
          g1bus_regs, dc_sysctrl_regs, atapi_xferlen, atapi_xferbase,
          atapi_xfercomplete, atapi_timer, dmack, ddt, quiet,
          devicelist, handled, assertion>>

hqvars == <<source, dest, dest0, color, force, sampler, dx, dy, sreads>>

clipvars == <<bounds, bounds0, clip, texcoords, tex0, rejected, nrepl>>

linevars == <<width, length_extension, quad>>

imgvars == <<file, bitmap, bitmap0, cinfo, buffer, png, overlay, result, log>>

dcvars == <<g1bus_regs, dc_sysctrl_regs, atapi_xferlen, atapi_xferbase,
            atapi_xfercomplete, atapi_timer, dmack, ddt, quiet>>

rawvars == <<devicelist, handled>>

hwvars == <<dcvars, rawvars, assertion>>

(***************************************************************************)
(* Bounds of the model                                                     *)
(***************************************************************************)

\* bitmaps with pixel data have at most MaxDim columns and MaxDim rows
MaxDim == 3

\* widths and heights of the size-only bitmaps of SpecSelect: the small sizes
\* and the sizes around 2^12 and 2^13 where the quotients stop being exact
SelectDims == (1 .. MaxDim) \cup {4097, 4098, 8191, 8193, 16384}

(***************************************************************************)
(* Pixels and bitmaps                                                      *)
(***************************************************************************)

\* rgb_t(a, r, g, b): the four u8 parameters keep the low 8 bits
RgbT(a, r, g, b) ==
    [a |-> a % 256, r |-> r % 256, g |-> g % 256, b |-> b % 256]

\* rgb_t(0): the pixel the bilinear sampler starts from
RgbZero == [a |-> 0, r |-> 0, g |-> 0, b |-> 0]

\* the test pattern filling pixel storage: cell i of a bitmap seeded with seed
PatternPix(seed, i) ==
    RgbT(seed + 67 * i, 2 * seed + 31 * i + 101, 5 * seed + 13 * i + 200,
         3 * seed + 89 * i + 7)

\* a bitmap of w x h pixels in rows of w + pad cells, filled with a pattern
MakeBitmap(w, h, pad, seed) ==
    [width |-> w, height |-> h, rowpixels |-> w + pad,
     pix |-> [i \in 0 .. ((w + pad) * h - 1) |-> PatternPix(seed, i)]]

\* a bitmap of which only the size is modelled
SizeOnly(w, h) ==
    [width |-> w, height |-> h, rowpixels |-> w, pix |-> << >>]

\* source[off]: reading the pixel at offset off from &source.pix(0); a read
\* outside the storage yields an unspecified pixel, here RgbZero
SrcAt(src, off) ==
    IF off \in DOMAIN src.pix THEN src.pix[off] ELSE RgbZero

(***************************************************************************)
(* render_resample_argb_bitmap_hq: the choice of the sampler               *)
(***************************************************************************)

HqEarlyReturnAnd(dwidth, dheight) == dwidth = 0 /\ dheight = 0

\* if (dest.width() == 0 || dest.height() == 0) return;
HqEarlyReturn(dwidth, dheight) == dwidth = 0 \/ dheight = 0

\* ceil(float(size << 12) / dsize): the division is a float division
CeilStep(size, dsize) == FCeil(FDiv(FInt(size * 4096), FInt(dsize)))

\* if (dx > 0x1000 || dy > 0x1000 || force)
UseAverage(fdx, fdy, frc) == fdx > 4096 \/ fdy > 4096 \/ frc

\* lines 165-185: the sampler chosen and the dx, dy it is called with
HqSelect(swidth, sheight, dwidth, dheight, frc) ==
    IF dwidth = 0 \/ dheight = 0
    THEN [sampler |-> "trap", dx |-> 0, dy |-> 0]
    ELSE LET fdx == (swidth * 4096) \div dwidth
             fdy == (sheight * 4096) \div dheight
         IN  IF UseAverage(fdx, fdy, frc)
             THEN [sampler |-> "average", dx |-> fdx, dy |-> fdy]
             ELSE IF swidth = 0 \/ sheight = 0
             THEN [sampler |-> "trap", dx |-> 0, dy |-> 0]
             ELSE [sampler |-> IF dwidth % swidth = 0 /\ dheight % sheight = 0
                               THEN "integer" ELSE "bilinear",
                   dx |-> CeilStep(swidth, dwidth),
                   dy |-> CeilStep(sheight, dheight)]

(***************************************************************************)
(* What the three samplers share                                           *)
(***************************************************************************)

\* r = color.r * color.a * 256.0f; ... a = color.a * 256.0f, stored in u32
Factors(c) ==
    [r |-> FTrunc(FMul(FMul(c.r, c.a), FInt(256))),
     g |-> FTrunc(FMul(FMul(c.g, c.a), FInt(256))),
     b |-> FTrunc(FMul(FMul(c.b, c.a), FInt(256))),
     a |-> FTrunc(FMul(c.a, FInt(256)))]

\* "apply scaling": suma = sample * a / 256, ... on the sample of a sampler
Tinted(samp, f) ==
    [a |-> (samp.a * f.a) \div 256, r |-> (samp.r * f.r) \div 256,
     g |-> (samp.g * f.g) \div 256, b |-> (samp.b * f.b) \div 256]

\* if (a < 256) { suma += dpix.a() * (256 - a); ... }
\* dest[...] = rgb_t(suma, sumr, sumg, sumb);
StorePix(sum, dpix, f) ==
    IF f.a < 256
    THEN RgbT(sum.a + dpix.a * (256 - f.a), sum.r + dpix.r * (256 - f.a),
              sum.g + dpix.g * (256 - f.a), sum.b + dpix.b * (256 - f.a))
    ELSE RgbT(sum.a, sum.r, sum.g, sum.b)

\* The sums of the averaging and bilinear samplers are u64 (u32) values above
\* 2^31, so a sum is carried as <<sum \div S, sum % S>> for the S it is divided
\* by; only sum \div S is used by the code.
RECURSIVE MulQR(_, _, _)
\* <<(f * p) \div S, (f * p) % S>> for 0 <= f <= S, p >= 0
MulQR(f, p, S) ==
    IF p = 0 THEN <<0, 0>>
    ELSE LET h == MulQR(f, p \div 2, S)
             d == 2 * h[2] + (p % 2) * f
         IN  <<2 * h[1] + (d \div S), d % S>>

RECURSIVE SumQR(_, _, _)
\* the sum of terms[k][1] * terms[k][2] over k <= n, as quotient and remainder
SumQR(terms, n, S) ==
    IF n = 0 THEN <<0, 0>>
    ELSE LET u == SumQR(terms, n - 1, S)
             v == MulQR(terms[n][1], terms[n][2], S)
         IN  <<u[1] + v[1] + ((u[2] + v[2]) \div S), (u[2] + v[2]) % S>>

\* (sum of factor * channel over the terms) / S
WeightedQuot(terms, S) == SumQR(terms, Len(terms), S)[1]

(***************************************************************************)
(* resample_argb_bitmap_integer                                            *)
(***************************************************************************)

IntegerOffsetWidth(src, x, y, sdx, sdy) ==
    ((y * sdy) \div 4096) * src.width + ((x * sdx) \div 4096)

\* (cury >> 12) * srowpixels + (curx >> 12) with cury = y * dy, curx = x * dx
IntegerOffset(src, x, y, sdx, sdy) ==
    ((y * sdy) \div 4096) * src.rowpixels + ((x * sdx) \div 4096)

IntegerSample(src, x, y, sdx, sdy) ==
    SrcAt(src, IntegerOffset(src, x, y, sdx, sdy))

(***************************************************************************)
(* resample_argb_bitmap_average                                            *)
(***************************************************************************)

RECURSIVE ChunksNoClamp(_, _)
ChunksNoClamp(cur, remaining) ==
    IF remaining <= 0 THEN << >>
    ELSE <<[cur |-> cur, chunk |-> 4096 - (cur % 4096)]>>
         \o ChunksNoClamp(cur + 4096 - (cur % 4096),
                          remaining - (4096 - (cur % 4096)))

RECURSIVE Chunks(_, _)
\* one axis of the accumulation loop: for (cur = start; remaining; cur += chunk)
\* { chunk = 0x1000 - (cur & 0xfff); if (chunk > remaining) chunk = remaining;
\*   remaining -= chunk; ... }: the values of cur and chunk, in order
Chunks(cur, remaining) ==
    IF remaining = 0 THEN << >>
    ELSE LET c     == 4096 - (cur % 4096)
             chunk == IF c > remaining THEN remaining ELSE c
         IN  <<[cur |-> cur, chunk |-> chunk]>>
             \o Chunks(cur + chunk, remaining - chunk)

\* the source cells visited for the destination pixel whose footprint starts at
\* (startx, starty), in the order of the two nested loops
AverageCells(startx, starty, sdx, sdy) ==
    LET ys == Chunks(starty, sdy)
        xs == Chunks(startx, sdx)
        nx == Len(xs)
    IN  [k \in 1 .. (Len(ys) * nx) |->
            [curx   |-> xs[((k - 1) % nx) + 1].cur,
             cury   |-> ys[((k - 1) \div nx) + 1].cur,
             xchunk |-> xs[((k - 1) % nx) + 1].chunk,
             ychunk |-> ys[((k - 1) \div nx) + 1].chunk]]

\* source offset of a visited cell: (cury >> 12) * srowpixels + (curx >> 12)
CellOffset(src, cell) ==
    (cell.cury \div 4096) * src.rowpixels + (cell.curx \div 4096)

\* sumr / sumscale, ... : the average before the tint is applied
AverageSample(src, x, y, sdx, sdy) ==
    LET cells == AverageCells(x * sdx, y * sdy, sdx, sdy)
        S     == sdx * sdy
        T(ch) == [k \in DOMAIN cells |->
                    <<cells[k].xchunk * cells[k].ychunk,
                      SrcAt(src, CellOffset(src, cells[k]))[ch]>>]
    IN  [a |-> WeightedQuot(T("a"), S), r |-> WeightedQuot(T("r"), S),
         g |-> WeightedQuot(T("g"), S), b |-> WeightedQuot(T("b"), S)]

(***************************************************************************)
(* resample_argb_bitmap_bilinear                                           *)
(***************************************************************************)

\* curx = startx + dx / 2 - 0x800 (cury likewise), as the signed value of the
\* u32: s32(curx) >= 0 is cur >= 0
BilinearStart(i, step) == i * step + (step \div 2) - 2048

InSourceUnsigned(cur, size) == cur < size * 4096

\* s32(cur) >= 0 && cur < max, the guard of each of the four fetches
InSource(cur, size) == cur >= 0 /\ cur < size * 4096

\* the four neighbours: <<offset or -1 when the guard fails, weight>>
BilinearTaps(src, x, y, sdx, sdy) ==
    LET curx  == BilinearStart(x, sdx)
        cury  == BilinearStart(y, sdy)
        nextx == curx + 4096
        nexty == cury + 4096
        fx    == curx % 4096
        fy    == cury % 4096
        Off(cy, cx) ==
            IF InSource(cy, src.height) /\ InSource(cx, src.width)
            THEN (cy \div 4096) * src.rowpixels + (cx \div 4096)
            ELSE -1
    IN  << <<Off(cury, curx), (4096 - fx) * (4096 - fy)>>,
           <<Off(cury, nextx), fx * (4096 - fy)>>,
           <<Off(nexty, curx), (4096 - fx) * fy>>,
           <<Off(nexty, nextx), fx * fy>> >>

\* sumr >> 24, ... : the interpolated pixel before the tint is applied
BilinearSample(src, x, y, sdx, sdy) ==
    LET taps == BilinearTaps(src, x, y, sdx, sdy)
        P(k) == IF taps[k][1] < 0 THEN RgbZero ELSE SrcAt(src, taps[k][1])
        T(ch) == [k \in 1 .. 4 |-> <<taps[k][2], P(k)[ch]>>]
    IN  [a |-> WeightedQuot(T("a"), 16777216),
         r |-> WeightedQuot(T("r"), 16777216),
         g |-> WeightedQuot(T("g"), 16777216),
         b |-> WeightedQuot(T("b"), 16777216)]

(***************************************************************************)
(* A sampler run over the whole destination                                *)
(***************************************************************************)

\* the value a sampler takes from the source for destination pixel (x, y)
SampleAt(kind, src, x, y, sdx, sdy) ==
    CASE kind = "integer"  -> IntegerSample(src, x, y, sdx, sdy)
      [] kind = "average"  -> AverageSample(src, x, y, sdx, sdy)
      [] kind = "bilinear" -> BilinearSample(src, x, y, sdx, sdy)

\* the source offsets a sampler reads for destination pixel (x, y)
ReadsAt(kind, src, x, y, sdx, sdy) ==
    CASE kind = "integer"  -> {IntegerOffset(src, x, y, sdx, sdy)}
      [] kind = "average"  ->
            LET cells == AverageCells(x * sdx, y * sdy, sdx, sdy)
            IN  {CellOffset(src, cells[k]) : k \in DOMAIN cells}
      [] kind = "bilinear" ->
            LET taps == BilinearTaps(src, x, y, sdx, sdy)
            IN  {taps[k][1] : k \in 1 .. 4} \ {-1}

\* the two loops over the target: every pixel (x, y), x < dwidth, y < dheight,
\* at dest[y * drowpixels + x] is replaced; the padding cells are not touched
Resampled(kind, dst, src, col, sdx, sdy) ==
    [dst EXCEPT !.pix =
        [i \in DOMAIN dst.pix |->
            LET x == i % dst.rowpixels
                y == i \div dst.rowpixels
            IN  IF x < dst.width
                THEN StorePix(Tinted(SampleAt(kind, src, x, y, sdx, sdy),
                                     Factors(col)),
                              dst.pix[i], Factors(col))
                ELSE dst.pix[i]]]

\* every source offset read by the two loops over the target
ResampleReads(kind, dst, src, sdx, sdy) ==
    UNION {ReadsAt(kind, src, x, y, sdx, sdy) :
              x \in 0 .. (dst.width - 1), y \in 0 .. (dst.height - 1)}

(***************************************************************************)
(* render_resample_argb_bitmap_hq                                          *)
(***************************************************************************)

\* the float 1/2
FHalf == [m |-> 1, e |-> -1]

\* the float 1/4
FQuarter == [m |-> 1, e |-> -2]

\* the float 3/4
FThreeQuarters == [m |-> 3, e |-> -2]

\* the tints of the model: opaque white, white at alpha 1/2 and 0, an opaque
\* and a translucent colour
Tints ==
    { [r |-> FInt(1), g |-> FInt(1), b |-> FInt(1), a |-> FInt(1)],
      [r |-> FInt(1), g |-> FInt(1), b |-> FInt(1), a |-> FHalf],
      [r |-> FInt(1), g |-> FInt(1), b |-> FInt(1), a |-> FInt(0)],
      [r |-> FHalf, g |-> FInt(1), b |-> FQuarter, a |-> FInt(1)],
      [r |-> FHalf, g |-> FThreeQuarters, b |-> FInt(1), a |-> FThreeQuarters] }

\* seeds of the test patterns of the source; the destination's is the seed + 100
Seeds == {0, 188}

\* a render_quad_texuv from its eight coordinates; null is FALSE for a
\* texcoords pointer that points at these coordinates
TexUV(tlu, tlv, tru, trv, blu, blv, bru, brv) ==
    [null |-> FALSE,
     tl |-> [u |-> tlu, v |-> tlv], tr |-> [u |-> tru, v |-> trv],
     bl |-> [u |-> blu, v |-> blv], br |-> [u |-> bru, v |-> brv]]

\* texcoords == nullptr: there are no coordinates to read or to write
NullTex ==
    [TexUV(FInt(0), FInt(0), FInt(0), FInt(0),
           FInt(0), FInt(0), FInt(0), FInt(0)) EXCEPT !.null = TRUE]

\* the render_line_to_quad state while another function's specification runs
LineIdle ==
    /\ width = FInt(0)
    /\ length_extension = FInt(0)
    /\ quad = << >>

\* the image loading state while another function's specification runs
ImgIdle ==
    /\ file = [pos |-> 0, size |-> 0]
    /\ bitmap = SizeOnly(0, 0)
    /\ bitmap0 = bitmap
    /\ cinfo = << >>
    /\ buffer = << >>
    /\ png = << >>
    /\ overlay = FALSE
    /\ result = "none"
    /\ log = << >>

\* the console and the input module while another specification runs
DcIdle ==
    /\ g1bus_regs = << >>
    /\ dc_sysctrl_regs = {}
    /\ atapi_xferlen = 0
    /\ atapi_xferbase = 0
    /\ atapi_xfercomplete = 0
    /\ atapi_timer = << >>
    /\ dmack = 0
    /\ ddt = << >>
    /\ quiet = FALSE

RawIdle ==
    /\ devicelist = << >>
    /\ handled = "none"

HwIdle ==
    /\ DcIdle
    /\ RawIdle
    /\ assertion = "none"

\* the clipping state while a resampling specification runs
ClipIdle ==
    /\ bounds = [x0 |-> FInt(0), y0 |-> FInt(0), x1 |-> FInt(0), y1 |-> FInt(0)]
    /\ bounds0 = bounds
    /\ clip = bounds
    /\ texcoords = NullTex
    /\ tex0 = NullTex
    /\ rejected = FALSE
    /\ nrepl = 0

\* a call with valid (non-empty) source bitmaps and any destination
ResampleInit ==
    /\ pc = "call"
    /\ \E sw \in 1 .. MaxDim, sh \in 1 .. MaxDim, dw \in 0 .. MaxDim,
          dh \in 0 .. MaxDim, pad \in {0, 1}, seed \in Seeds :
          /\ source = MakeBitmap(sw, sh, pad, seed)
          /\ dest = MakeBitmap(dw, dh, pad, seed + 100)
    /\ dest0 = dest
    /\ color \in Tints
    /\ force \in BOOLEAN
    /\ sampler = "none"
    /\ dx = 0
    /\ dy = 0
    /\ sreads = {}
    /\ ClipIdle
    /\ LineIdle
    /\ ImgIdle
    /\ HwIdle

\* the whole of render_resample_argb_bitmap_hq, the sampler it calls included
ResampleHq ==
    /\ pc = "call"
    /\ pc' = "done"
    /\ IF HqEarlyReturn(dest.width, dest.height)
       THEN UNCHANGED <<dest, sampler, dx, dy, sreads>>
       ELSE LET sel == HqSelect(source.width, source.height,
                                dest.width, dest.height, force)
            IN  /\ sampler' = sel.sampler
                /\ dx' = sel.dx
                /\ dy' = sel.dy
                /\ IF sel.sampler = "trap"
                   THEN UNCHANGED <<dest, sreads>>
                   ELSE /\ dest' = Resampled(sel.sampler, dest, source, color,
                                             sel.dx, sel.dy)
                        /\ sreads' = ResampleReads(sel.sampler, dest, source,
                                                   sel.dx, sel.dy)
    /\ UNCHANGED <<source, dest0, color, force>>
    /\ UNCHANGED clipvars
    /\ UNCHANGED linevars
    /\ UNCHANGED imgvars
    /\ UNCHANGED hwvars

ResampleNext == ResampleHq

SpecResample == ResampleInit /\ [][ResampleNext]_vars

\* calls on bitmaps of which only the sizes are modelled
SelectInit ==
    /\ pc = "call"
    /\ \E sw \in SelectDims, sh \in SelectDims :
          source = SizeOnly(sw, sh)
    /\ \E dw \in SelectDims \cup {0}, dh \in SelectDims \cup {0} :
          dest = SizeOnly(dw, dh)
    /\ dest0 = dest
    /\ color = [r |-> FInt(1), g |-> FInt(1), b |-> FInt(1), a |-> FInt(1)]
    /\ force \in BOOLEAN
    /\ sampler = "none"
    /\ dx = 0
    /\ dy = 0
    /\ sreads = {}
    /\ ClipIdle
    /\ LineIdle
    /\ ImgIdle
    /\ HwIdle

\* render_resample_argb_bitmap_hq up to the call of the sampler it chooses
ResampleHqSelect ==
    /\ pc = "call"
    /\ pc' = "done"
    /\ IF HqEarlyReturn(dest.width, dest.height)
       THEN UNCHANGED <<sampler, dx, dy>>
       ELSE LET sel == HqSelect(source.width, source.height,
                                dest.width, dest.height, force)
            IN  /\ sampler' = sel.sampler
                /\ dx' = sel.dx
                /\ dy' = sel.dy
    /\ UNCHANGED <<source, dest, dest0, color, force, sreads>>
    /\ UNCHANGED clipvars
    /\ UNCHANGED linevars
    /\ UNCHANGED imgvars
    /\ UNCHANGED hwvars

SelectNext == ResampleHqSelect

SpecSelect == SelectInit /\ [][SelectNext]_vars

(***************************************************************************)
(* render_clip_line                                                        *)
(***************************************************************************)

\* segment and rectangle coordinates are the integers -MaxCoord .. MaxCoord
MaxCoord == 3

\* the loop of render_clip_line is followed for at most MaxRepl replacements
MaxRepl == 6

\* the float next above -2: -(2 - 2^-23)
FAboveMinusTwo == [m |-> -16777215, e |-> -23]

\* the clip rectangles of the model, all ordered (x0 <= x1, y0 <= y1): the
\* lower edges at -2 or one unit in the last place above it
ClipRects ==
    { [x0 |-> cx0, y0 |-> cy0, x1 |-> cx1, y1 |-> cy1] :
        cx0 \in {FInt(-2), FAboveMinusTwo}, cy0 \in {FInt(-2), FAboveMinusTwo},
        cx1 \in {FInt(1), FInt(2)}, cy1 \in {FInt(2)} }

\* the coordinates of segments and rectangles
Coords == {FInt(n) : n \in (-MaxCoord) .. MaxCoord}

OutCodeClosed(x, y, c) ==
    (IF FLe(c.y1, y) THEN 1 ELSE 0) + (IF FLe(y, c.y0) THEN 2 ELSE 0)
    + (IF FLe(c.x1, x) THEN 4 ELSE 0) + (IF FLe(x, c.x0) THEN 8 ELSE 0)

\* the Cohen Sutherland bits of the point (x, y): 1 below clip.y1, 2 above
\* clip.y0, 4 right of clip.x1, 8 left of clip.x0
OutCode(x, y, c) ==
    (IF FLt(c.y1, y) THEN 1 ELSE 0) + (IF FLt(y, c.y0) THEN 2 ELSE 0)
    + (IF FLt(c.x1, x) THEN 4 ELSE 0) + (IF FLt(x, c.x0) THEN 8 ELSE 0)

\* code & bit, for bit one of 1, 2, 4, 8
HasBit(code, bit) == (code \div bit) % 2 = 1

\* (code0 & code1) != 0
ShareBit(code0, code1) ==
    \E bit \in {1, 2, 4, 8} : HasBit(code0, bit) /\ HasBit(code1, bit)

\* the divisor of the intersection computed for thiscode
CutDivisor(b, thiscode) ==
    IF HasBit(thiscode, 1) \/ HasBit(thiscode, 2)
    THEN FSub(b.y1, b.y0)
    ELSE FSub(b.x1, b.x0)

\* base + (span * (edge - from)) / divisor, in float arithmetic
CutAt(base, span, edge, from, divisor) ==
    FAdd(base, FDiv(FMul(span, FSub(edge, from)), divisor))

\* "fix one of the OOB cases": the point <<x, y>> that replaces the endpoint
\* with code thiscode, the bottom tested first, then top, right, left
CutPoint(b, c, thiscode) ==
    IF HasBit(thiscode, 1)
    THEN <<CutAt(b.x0, FSub(b.x1, b.x0), c.y1, b.y0, FSub(b.y1, b.y0)), c.y1>>
    ELSE IF HasBit(thiscode, 2)
    THEN <<CutAt(b.x0, FSub(b.x1, b.x0), c.y0, b.y0, FSub(b.y1, b.y0)), c.y0>>
    ELSE IF HasBit(thiscode, 4)
    THEN <<c.x1, CutAt(b.y0, FSub(b.y1, b.y0), c.x1, b.x0, FSub(b.x1, b.x0))>>
    ELSE <<c.x0, CutAt(b.y0, FSub(b.y1, b.y0), c.x0, b.x0, FSub(b.x1, b.x0))>>

\* "fix the appropriate coordinate": thiscode == code0 picks endpoint 0
Replaced(b, c, code0, code1) ==
    LET thiscode == IF code0 # 0 THEN code0 ELSE code1
        p == CutPoint(b, c, thiscode)
    IN  IF thiscode = code0
        THEN [b EXCEPT !.x0 = p[1], !.y0 = p[2]]
        ELSE [b EXCEPT !.x1 = p[1], !.y1 = p[2]]

\* the resampling state while a clipping specification runs
HqIdle ==
    /\ source = SizeOnly(0, 0)
    /\ dest = SizeOnly(0, 0)
    /\ dest0 = dest
    /\ color = [r |-> FInt(1), g |-> FInt(1), b |-> FInt(1), a |-> FInt(1)]
    /\ force = FALSE
    /\ sampler = "none"
    /\ dx = 0
    /\ dy = 0
    /\ sreads = {}

\* any segment (the endpoints are unordered), an ordered clip rectangle
ClipLineInit ==
    /\ pc = "call"
    /\ \E x0 \in Coords, y0 \in Coords, x1 \in Coords, y1 \in Coords :
          bounds = [x0 |-> x0, y0 |-> y0, x1 |-> x1, y1 |-> y1]
    /\ bounds0 = bounds
    /\ clip \in ClipRects
    /\ texcoords = NullTex
    /\ tex0 = NullTex
    /\ rejected = FALSE
    /\ nrepl = 0
    /\ HqIdle
    /\ LineIdle
    /\ ImgIdle
    /\ HwIdle

\* one pass through the body of while (true) in render_clip_line: a return
\* (pc = "done"), a replaced endpoint, or a float division by zero, whose
\* result (an infinity or a NaN) is outside the modelled floats (pc = "trap")
ClipLineStep ==
    /\ pc \in {"call", "loop"}
    /\ nrepl < MaxRepl
    /\ LET code0 == OutCode(bounds.x0, bounds.y0, clip)
           code1 == OutCode(bounds.x1, bounds.y1, clip)
       IN  IF code0 = 0 /\ code1 = 0
           THEN /\ pc' = "done"
                /\ rejected' = FALSE
                /\ UNCHANGED <<bounds, nrepl>>
           ELSE IF ShareBit(code0, code1)
           THEN /\ pc' = "done"
                /\ rejected' = TRUE
                /\ UNCHANGED <<bounds, nrepl>>
           ELSE IF CutDivisor(bounds, IF code0 # 0 THEN code0 ELSE code1).m = 0
           THEN /\ pc' = "trap"
                /\ UNCHANGED <<bounds, nrepl, rejected>>
           ELSE /\ pc' = "loop"
                /\ bounds' = Replaced(bounds, clip, code0, code1)
                /\ nrepl' = nrepl + 1
                /\ UNCHANGED rejected
    /\ UNCHANGED <<bounds0, clip, texcoords, tex0>>
    /\ UNCHANGED hqvars
    /\ UNCHANGED linevars
    /\ UNCHANGED imgvars
    /\ UNCHANGED hwvars

ClipLineNext == ClipLineStep

SpecClipLine == ClipLineInit /\ [][ClipLineNext]_vars

(***************************************************************************)
(* render_clip_quad                                                        *)
(***************************************************************************)

\* the texture coordinates of the model: none, the whole texture, and a quad
\* whose eight coordinates all differ
TexChoices ==
    { NullTex,
      TexUV(FInt(0), FInt(0), FInt(1), FInt(0),
            FInt(0), FInt(1), FInt(1), FInt(1)),
      TexUV(FQuarter, FHalf, FInt(2), FThreeQuarters,
            FInt(-1), FInt(3), FInt(5), FInt(7)) }

QuadRejectedClosed(b, c) ==
    \/ FLe(b.y1, c.y0)
    \/ FLe(c.y1, b.y0)
    \/ FLe(b.x1, c.x0)
    \/ FLe(c.x1, b.x0)

\* "trivial reject": the four tests before any clipping
QuadRejected(b, c) ==
    \/ FLt(b.y1, c.y0)
    \/ FLt(c.y1, b.y0)
    \/ FLt(b.x1, c.x0)
    \/ FLt(c.x1, b.x0)

\* p.u += (q.u - p.u) * frac; p.v += (q.v - p.v) * frac
UvTowards(p, q, frac) ==
    [u |-> FAdd(p.u, FMul(FSub(q.u, p.u), frac)),
     v |-> FAdd(p.v, FMul(FSub(q.v, p.v), frac))]

\* p.u -= (p.u - q.u) * frac; p.v -= (p.v - q.v) * frac
UvBack(p, q, frac) ==
    [u |-> FSub(p.u, FMul(FSub(p.u, q.u), frac)),
     v |-> FSub(p.v, FMul(FSub(p.v, q.v), frac))]

ClipTopWrongPair(q, c) ==
    IF FLt(q.b.y0, c.y0)
    THEN LET frac == FDiv(FSub(c.y0, q.b.y0), FSub(q.b.y1, q.b.y0))
         IN  [b |-> [q.b EXCEPT !.y0 = c.y0],
              t |-> IF q.t.null THEN q.t
                    ELSE [q.t EXCEPT !.tl = UvTowards(q.t.tl, q.t.tr, frac),
                                     !.tr = UvTowards(q.t.tr, q.t.br, frac)]]
    ELSE q

\* "clip top": q is [b: the bounds, t: the texture coordinates]
ClipTop(q, c) ==
    IF FLt(q.b.y0, c.y0)
    THEN LET frac == FDiv(FSub(c.y0, q.b.y0), FSub(q.b.y1, q.b.y0))
         IN  [b |-> [q.b EXCEPT !.y0 = c.y0],
              t |-> IF q.t.null THEN q.t
                    ELSE [q.t EXCEPT !.tl = UvTowards(q.t.tl, q.t.bl, frac),
                                     !.tr = UvTowards(q.t.tr, q.t.br, frac)]]
    ELSE q

\* "clip bottom"
ClipBottom(q, c) ==
    IF FLt(c.y1, q.b.y1)
    THEN LET frac == FDiv(FSub(q.b.y1, c.y1), FSub(q.b.y1, q.b.y0))
         IN  [b |-> [q.b EXCEPT !.y1 = c.y1],
              t |-> IF q.t.null THEN q.t
                    ELSE [q.t EXCEPT !.bl = UvBack(q.t.bl, q.t.tl, frac),
                                     !.br = UvBack(q.t.br, q.t.tr, frac)]]
    ELSE q

\* "clip left"
ClipLeft(q, c) ==
    IF FLt(q.b.x0, c.x0)
    THEN LET frac == FDiv(FSub(c.x0, q.b.x0), FSub(q.b.x1, q.b.x0))
         IN  [b |-> [q.b EXCEPT !.x0 = c.x0],
              t |-> IF q.t.null THEN q.t
                    ELSE [q.t EXCEPT !.tl = UvTowards(q.t.tl, q.t.tr, frac),
                                     !.bl = UvTowards(q.t.bl, q.t.br, frac)]]
    ELSE q

ClipRightWrongPair(q, c) ==
    IF FLt(c.x1, q.b.x1)
    THEN LET frac == FDiv(FSub(q.b.x1, c.x1), FSub(q.b.x1, q.b.x0))
         IN  [b |-> [q.b EXCEPT !.x1 = c.x1],
              t |-> IF q.t.null THEN q.t
                    ELSE [q.t EXCEPT !.tr = UvBack(q.t.tr, q.t.bl, frac),
                                     !.br = UvBack(q.t.br, q.t.tl, frac)]]
    ELSE q

\* "clip right"
ClipRight(q, c) ==
    IF FLt(c.x1, q.b.x1)
    THEN LET frac == FDiv(FSub(q.b.x1, c.x1), FSub(q.b.x1, q.b.x0))
         IN  [b |-> [q.b EXCEPT !.x1 = c.x1],
              t |-> IF q.t.null THEN q.t
                    ELSE [q.t EXCEPT !.tr = UvBack(q.t.tr, q.t.tl, frac),
                                     !.br = UvBack(q.t.br, q.t.bl, frac)]]
    ELSE q

\* the four clips in the order of the code: top, bottom, left, right
QuadClipped(b, t, c) ==
    ClipRight(ClipLeft(ClipBottom(ClipTop([b |-> b, t |-> t], c), c), c), c)

\* rectangles that satisfy the two assertions (x0 <= x1, y0 <= y1), an ordered
\* clip rectangle, texture coordinates or none
ClipQuadInit ==
    /\ pc = "call"
    /\ \E x0 \in Coords, y0 \in Coords, x1 \in Coords, y1 \in Coords :
          /\ FLe(x0, x1)
          /\ FLe(y0, y1)
          /\ bounds = [x0 |-> x0, y0 |-> y0, x1 |-> x1, y1 |-> y1]
    /\ bounds0 = bounds
    /\ clip \in ClipRects
    /\ texcoords \in TexChoices
    /\ tex0 = texcoords
    /\ rejected = FALSE
    /\ nrepl = 0
    /\ HqIdle
    /\ LineIdle
    /\ ImgIdle
    /\ HwIdle

\* the whole of render_clip_quad
ClipQuad ==
    /\ pc = "call"
    /\ pc' = "done"
    /\ IF QuadRejected(bounds, clip)
       THEN /\ rejected' = TRUE
            /\ UNCHANGED <<bounds, texcoords>>
       ELSE /\ rejected' = FALSE
            /\ bounds' = QuadClipped(bounds, texcoords, clip).b
            /\ texcoords' = QuadClipped(bounds, texcoords, clip).t
    /\ UNCHANGED <<bounds0, clip, tex0, nrepl>>
    /\ UNCHANGED hqvars
    /\ UNCHANGED linevars
    /\ UNCHANGED imgvars
    /\ UNCHANGED hwvars

ClipQuadNext == ClipQuad

SpecClipQuad == ClipQuadInit /\ [][ClipQuadNext]_vars

(***************************************************************************)
(* render_line_to_quad                                                     *)
(***************************************************************************)

\* constexpr float unit_length = 0.70710678f
UnitLength == [m |-> 11863283, e |-> -24]

\* the float 7/2
FSevenHalves == [m |-> 7, e |-> -1]

\* the first endpoints of the segments of the model
LineStarts == {<<0, 0>>, <<5, 5>>, <<1, -2>>}

\* the vectors from the first to the second endpoint: none (a point), along an
\* axis, and oblique
LineDeltas ==
    {<<0, 0>>, <<10, 0>>, <<0, -13>>, <<-13, 0>>, <<0, 7>>,
     <<3, 4>>, <<1, 1>>, <<-2, 5>>}

\* the stroke widths of the model
LineWidths == {FHalf, FInt(1), FInt(2), FSevenHalves}

\* the length extensions of the model: none, negative, positive
LineExtensions == {FInt(0), FInt(-1), FInt(1), FInt(3)}

DegenerateUnitHalf(half_width) == FMul(FHalf, half_width)

\* unitx = unity = unit_length * half_width
DegenerateUnit(half_width) == FMul(UnitLength, half_width)

ExtendedBothForward(b, unitx, unity, length, ext) ==
    LET half_length_extension == FMul(ext, FHalf)
        directionx == FDiv(unitx, length)
        directiony == FDiv(unity, length)
    IN  [x0 |-> FAdd(b.x0, FMul(directionx, half_length_extension)),
         y0 |-> FAdd(b.y0, FMul(directiony, half_length_extension)),
         x1 |-> FAdd(b.x1, FMul(directionx, half_length_extension)),
         y1 |-> FAdd(b.y1, FMul(directiony, half_length_extension))]

\* "extend line length": modbounds moved outwards by half the extension
Extended(b, unitx, unity, length, ext) ==
    LET half_length_extension == FMul(ext, FHalf)
        directionx == FDiv(unitx, length)
        directiony == FDiv(unity, length)
    IN  [x0 |-> FSub(b.x0, FMul(directionx, half_length_extension)),
         y0 |-> FSub(b.y0, FMul(directiony, half_length_extension)),
         x1 |-> FAdd(b.x1, FMul(directionx, half_length_extension)),
         y1 |-> FAdd(b.y1, FMul(directiony, half_length_extension))]

\* "rotate the unit vector by 90 and -90 degrees and add to points 0 and 1"
QuadAround(mb, unitx, unity) ==
    << [x0 |-> FSub(mb.x0, unity), y0 |-> FAdd(mb.y0, unitx),
        x1 |-> FAdd(mb.x0, unity), y1 |-> FSub(mb.y0, unitx)],
       [x0 |-> FSub(mb.x1, unity), y0 |-> FAdd(mb.y1, unitx),
        x1 |-> FAdd(mb.x1, unity), y1 |-> FSub(mb.y1, unitx)] >>

\* render_line_to_quad(bounds, width, length_extension)
LineToQuad(b, w, ext) ==
    LET half_width == FMul(w, FHalf)
        unitx      == FSub(b.x1, b.x0)
        unity      == FSub(b.y1, b.y0)
    IN  IF unitx.m = 0 /\ unity.m = 0
        THEN LET u == DegenerateUnit(half_width)
             IN  QuadAround([x0 |-> FSub(b.x0, u), y0 |-> FSub(b.y0, u),
                             x1 |-> FAdd(b.x1, u), y1 |-> FAdd(b.y1, u)], u, u)
        ELSE LET length    == FSqrt(FAdd(FMul(unitx, unitx),
                                         FMul(unity, unity)))
                 invlength == FDiv(half_width, length)
             IN  QuadAround(IF FLt(FInt(0), ext)
                            THEN Extended(b, unitx, unity, length, ext)
                            ELSE b,
                            FMul(unitx, invlength), FMul(unity, invlength))

\* the clipping state that render_line_to_quad does not use
LineClipIdle ==
    /\ clip = [x0 |-> FInt(0), y0 |-> FInt(0), x1 |-> FInt(0), y1 |-> FInt(0)]
    /\ texcoords = NullTex
    /\ tex0 = NullTex
    /\ rejected = FALSE
    /\ nrepl = 0

\* a call on any segment, width and extension of the model
LineToQuadInit ==
    /\ pc = "call"
    /\ \E p \in LineStarts, d \in LineDeltas :
          bounds = [x0 |-> FInt(p[1]), y0 |-> FInt(p[2]),
                    x1 |-> FInt(p[1] + d[1]), y1 |-> FInt(p[2] + d[2])]
    /\ bounds0 = bounds
    /\ width \in LineWidths
    /\ length_extension \in LineExtensions
    /\ quad = << >>
    /\ LineClipIdle
    /\ HqIdle
    /\ ImgIdle
    /\ HwIdle

\* the whole of render_line_to_quad; bounds is a const reference
RenderLineToQuad ==
    /\ pc = "call"
    /\ pc' = "done"
    /\ quad' = LineToQuad(bounds, width, length_extension)
    /\ UNCHANGED <<width, length_extension>>
    /\ UNCHANGED clipvars
    /\ UNCHANGED hqvars
    /\ UNCHANGED imgvars
    /\ UNCHANGED hwvars

LineToQuadNext == RenderLineToQuad

SpecLineToQuad == LineToQuadInit /\ [][LineToQuadNext]_vars

(***************************************************************************)
(* The stream and jpeg_corefile_source                                     *)
(***************************************************************************)

\* static constexpr unsigned INPUT_BUF_SIZE = 4096
INPUT_BUF_SIZE == 4096

\* the end-of-image marker code of jpeglib.h, 0xD9
JPEG_EOI == 217

\* do_fill is followed at most MaxFills times in one call of a function
MaxFills == 3

\* the sizes in bytes of the streams of the model: empty, shorter than any
\* header, longer than one and than two input buffers
FileSizes == {0, 4, 5000, 9000}

\* the formats whose header check the content of a stream can pass
Formats == {"png", "jpeg", "dib"}

\* a stream at offset 0: its size and the set of header checks it passes
NewFile(size, accepts) == [pos |-> 0, size |-> size, accepts |-> accepts]

\* the streams of the model; a stream that passes a header check holds at
\* least the bytes of a header
Files ==
    {NewFile(size, accepts) :
        size \in FileSizes, accepts \in SUBSET Formats}
    \ {NewFile(size, accepts) :
        size \in {0, 4}, accepts \in (SUBSET Formats) \ {{}}}

\* file.read(buffer, n, actual): the bytes read, and the stream after it
ReadCount(f, n) == IF f.size - f.pos < n THEN f.size - f.pos ELSE n

ReadUpTo(f, n) == [f EXCEPT !.pos = f.pos + ReadCount(f, n)]

SeekNowhere(f, offset) == f

\* file.seek(offset, SEEK_SET) on a seekable stream
SeekSet(f, offset) == [f EXCEPT !.pos = offset]

\* cinfo before jpeg_create_decompress: nothing created, start_of_file not
\* yet written
NoDecoder ==
    [creates |-> 0, destroys |-> 0, start_of_file |-> "unset", fills |-> 0,
     warnings |-> 0, bytes_in_buffer |-> 0, supplied |-> << >>,
     msg_code |-> "none", output_width |-> 0, output_height |-> 0,
     output_components |-> 0, output_scanline |-> 0]

\* jpeg_corefile_source::source: the buffer is empty; start_of_file is left
\* as it is
SourceSet(ci) == [ci EXCEPT !.bytes_in_buffer = 0]

\* do_init
DoInit(ci) == [ci EXCEPT !.start_of_file = "true"]

\* the bytes placed in the buffer when the stream has none left
FakeEoi == <<255, JPEG_EOI>>

\* the state of the source after a refill that read nbytes bytes
Refilled(ci, nbytes) ==
    [ci EXCEPT !.bytes_in_buffer = IF nbytes = 0 THEN 2 ELSE nbytes,
               !.supplied = IF nbytes = 0 THEN FakeEoi ELSE << >>,
               !.warnings = IF nbytes = 0 THEN @ + 1 ELSE @,
               !.start_of_file = "false",
               !.fills = @ + 1]

\* ERREXIT(cinfo, code): the code is stored, error_exit is called
Raised(ci, code) == [ci EXCEPT !.msg_code = code]

DoFillNeverFatal(ci, f, sof) ==
    [raised |-> FALSE,
     file   |-> ReadUpTo(f, INPUT_BUF_SIZE),
     cinfo  |-> Refilled(ci, ReadCount(f, INPUT_BUF_SIZE))]

\* do_fill with start_of_file read as sof: raised is TRUE when ERREXIT is
\* called (it does not return), else the buffer holds bytes_in_buffer bytes,
\* the two bytes 0xFF, JPEG_EOI after a warning when the read gave none
DoFill(ci, f, sof) ==
    LET nbytes == ReadCount(f, INPUT_BUF_SIZE)
    IN  IF nbytes = 0 /\ sof
        THEN [raised |-> TRUE, file |-> f,
              cinfo |-> Raised(ci, "JERR_INPUT_EMPTY")]
        ELSE [raised |-> FALSE,
              file   |-> ReadUpTo(f, INPUT_BUF_SIZE),
              cinfo  |-> Refilled(ci, nbytes)]

\* the values a read of start_of_file can give: any when it was never written
StartOfFileRead(ci) ==
    IF ci.start_of_file = "unset" THEN BOOLEAN
    ELSE {ci.start_of_file = "true"}

JumpPastCleanup(at) ==
    IF at \in {"d_create", "d_source", "d_init", "d_header"}
    THEN "d_dib" ELSE "j_cleanup"

\* where std::longjmp(m_jump_buffer) resumes: the setjmp branch of the
\* function that runs
JumpTarget(at) ==
    IF at \in {"d_create", "d_source", "d_init", "d_header"}
    THEN "d_notjpeg" ELSE "j_error"

\* jpeg_destroy_decompress(&cinfo)
Destroyed(ci) == [ci EXCEPT !.destroys = @ + 1]

(***************************************************************************)
(* render_detect_image                                                     *)
(***************************************************************************)

\* the bytes a header check reads before it answers: the 8 signature bytes of
\* PNG, the 14 bytes of a DIB file header, or none
HeaderReads == {0, 8, 14}

\* one probe in the log: the offset of the stream when it started, and how
\* it ended
Probe(name, pos, ok) == [probe |-> name, pos |-> pos, ok |-> ok]

\* the last entry of the log ends as ok
Ended(l, ok) == [l EXCEPT ![Len(l)].ok = ok]

\* the bitmap state while render_detect_image runs
DetectIdle ==
    /\ bitmap = SizeOnly(0, 0)
    /\ bitmap0 = bitmap
    /\ buffer = << >>
    /\ png = << >>
    /\ overlay = FALSE

\* a call on any stream of the model, positioned at offset 0
DetectInit ==
    /\ pc = "call"
    /\ file \in Files
    /\ cinfo = NoDecoder
    /\ result = "none"
    /\ log = << >>
    /\ DetectIdle
    /\ HqIdle
    /\ ClipIdle
    /\ LineIdle
    /\ HwIdle

\* png_info::verify_header, the seek, and the return of PNG
DetectPng ==
    /\ pc = "call"
    /\ \E n \in HeaderReads :
          LET ok == "png" \in file.accepts
              after == ReadUpTo(file, n)
          IN  /\ n > 0 \/ ~ok
              /\ file' = SeekSet(after, 0)
              /\ log' = Append(log, Probe("png", file.pos,
                                          IF ok THEN "yes" ELSE "no"))
              /\ result' = IF ok THEN "PNG" ELSE result
              /\ pc' = IF ok THEN "done" ELSE "d_create"
    /\ UNCHANGED <<cinfo, bitmap, bitmap0, buffer, png, overlay>>
    /\ UNCHANGED <<hqvars, clipvars, linevars>>
    /\ UNCHANGED hwvars

\* jpeg_create_decompress after setjmp returned 0: it returns, or its
\* memory manager raises a fatal error
JpegCreate(at, next) ==
    /\ pc = at
    /\ \/ /\ cinfo' = [cinfo EXCEPT !.creates = @ + 1]
          /\ pc' = next
       \/ /\ cinfo' = Raised(cinfo, "JERR_OUT_OF_MEMORY")
          /\ pc' = JumpTarget(at)

\* jpeg_corefile_source::source: it returns, or alloc_small raises
JpegSource(at, next) ==
    /\ pc = at
    /\ \/ /\ cinfo' = SourceSet(cinfo)
          /\ pc' = next
       \/ /\ cinfo' = Raised(cinfo, "JERR_OUT_OF_MEMORY")
          /\ pc' = JumpTarget(at)

\* init_source, the first call a jpeg_read_header makes on its source
JpegInit(at, next) ==
    /\ pc = at
    /\ cinfo' = DoInit(cinfo)
    /\ pc' = next

\* fill_input_buffer, called by the decoder when its buffer is empty
JpegFill(at) ==
    /\ pc = at
    /\ cinfo.fills < MaxFills
    /\ \E sof \in StartOfFileRead(cinfo) :
          LET r == DoFill(cinfo, file, sof)
          IN  /\ file' = r.file
              /\ cinfo' = r.cinfo
              /\ pc' = IF r.raised THEN JumpTarget(at) ELSE at

\* jpeg_read_header returns once bytes it was given hold a JPEG header
JpegHeaderReturns(at, next) ==
    /\ pc = at
    /\ cinfo.fills > 0
    /\ cinfo.warnings = 0
    /\ "jpeg" \in file.accepts
    /\ pc' = next

\* a decoder call raises a fatal error on the bytes it was given
JpegRaises(at) ==
    /\ pc = at
    /\ cinfo.fills > 0
    /\ cinfo' = Raised(cinfo, "JERR")
    /\ pc' = JumpTarget(at)

DetectJpegCreate ==
    /\ JpegCreate("d_create", "d_source")
    /\ log' = Append(log, Probe("jpeg", file.pos, "running"))
    /\ UNCHANGED <<file, result, bitmap, bitmap0, buffer, png, overlay>>
    /\ UNCHANGED <<hqvars, clipvars, linevars>>
    /\ UNCHANGED hwvars

DetectJpegSource ==
    /\ JpegSource("d_source", "d_init")
    /\ UNCHANGED <<file, result, log, bitmap, bitmap0, buffer, png, overlay>>
    /\ UNCHANGED <<hqvars, clipvars, linevars>>
    /\ UNCHANGED hwvars

DetectJpegInit ==
    /\ JpegInit("d_init", "d_header")
    /\ UNCHANGED <<file, result, log, bitmap, bitmap0, buffer, png, overlay>>
    /\ UNCHANGED <<hqvars, clipvars, linevars>>
    /\ UNCHANGED hwvars

DetectJpegFill ==
    /\ JpegFill("d_header")
    /\ UNCHANGED <<result, log, bitmap, bitmap0, buffer, png, overlay>>
    /\ UNCHANGED <<hqvars, clipvars, linevars>>
    /\ UNCHANGED hwvars

DetectJpegHeaderRaises ==
    /\ JpegRaises("d_header")
    /\ UNCHANGED <<file, result, log>>
    /\ UNCHANGED <<bitmap, bitmap0, buffer, png, overlay>>
    /\ UNCHANGED <<hqvars, clipvars, linevars>>
    /\ UNCHANGED hwvars

\* jpeg_read_header returned: destroy, seek, return JPEG
DetectJpegFound ==
    /\ JpegHeaderReturns("d_header", "done")
    /\ cinfo' = Destroyed(cinfo)
    /\ file' = SeekSet(file, 0)
    /\ log' = Ended(log, "yes")
    /\ result' = "JPEG"
    /\ UNCHANGED <<bitmap, bitmap0, buffer, png, overlay>>
    /\ UNCHANGED <<hqvars, clipvars, linevars>>
    /\ UNCHANGED hwvars

\* notjpeg: destroy, seek, fall through to the DIB probe
DetectNotJpeg ==
    /\ pc = "d_notjpeg"
    /\ cinfo' = Destroyed(cinfo)
    /\ file' = SeekSet(file, 0)
    /\ log' = Ended(log, "no")
    /\ pc' = "d_dib"
    /\ UNCHANGED <<result, bitmap, bitmap0, buffer, png, overlay>>
    /\ UNCHANGED <<hqvars, clipvars, linevars>>
    /\ UNCHANGED hwvars

\* msdib_verify_header, the seek, and the return of MSDIB or UNKNOWN
DetectMsdib ==
    /\ pc = "d_dib"
    /\ \E n \in HeaderReads :
          LET ok == "dib" \in file.accepts
              after == ReadUpTo(file, n)
          IN  /\ n > 0 \/ ~ok
              /\ file' = SeekSet(after, 0)
              /\ log' = Append(log, Probe("dib", file.pos,
                                          IF ok THEN "yes" ELSE "no"))
              /\ result' = IF ok THEN "MSDIB" ELSE "UNKNOWN"
              /\ pc' = "done"
    /\ UNCHANGED <<cinfo, bitmap, bitmap0, buffer, png, overlay>>
    /\ UNCHANGED <<hqvars, clipvars, linevars>>
    /\ UNCHANGED hwvars

DetectNext ==
    \/ DetectPng
    \/ DetectJpegCreate
    \/ DetectJpegSource
    \/ DetectJpegInit
    \/ DetectJpegFill
    \/ DetectJpegHeaderRaises
    \/ DetectJpegFound
    \/ DetectNotJpeg
    \/ DetectMsdib

SpecDetect == DetectInit /\ [][DetectNext]_vars

(***************************************************************************)
(* render_load_jpeg                                                        *)
(***************************************************************************)

\* the output_width, output_height and output_components of the images of
\* the model: grayscale, RGB, and four components
JpegImages == {<<1, 1, 1>>, <<2, 2, 3>>, <<2, 1, 1>>, <<1, 2, 4>>}

\* bitmap.reset(): the empty bitmap
ResetBitmap == SizeOnly(0, 0)

\* bitmap.valid()
Valid(b) == DOMAIN b.pix # {}

\* bitmap.allocate(w, h) when it finds the memory
Allocated(w, h) ==
    [width |-> w, height |-> h, rowpixels |-> w,
     pix |-> [i \in 0 .. (w * h - 1) |-> RgbZero]]

\* the bitmaps a caller passes in: an empty one, or one that holds pixels
Destinations == {ResetBitmap} \cup {MakeBitmap(2, 2, 0, seed) : seed \in {3}}

\* JSAMPARRAY buffer = nullptr: the variable, the array it may point to and
\* the row buffer[0] may point to
NoBuffer == [var |-> "nullptr", array |-> "none", row |-> "none"]

\* the two std::malloc calls: gotArray and gotRow tell which found memory
Malloced(gotArray, gotRow) ==
    [var   |-> IF gotArray THEN "array" ELSE "nullptr",
     array |-> IF gotArray THEN "live" ELSE "none",
     row   |-> IF gotArray /\ gotRow THEN "live" ELSE "none"]

\* the values of buffer after std::longjmp: it is not volatile, so it is
\* indeterminate when it was assigned after setjmp, and reads either as it
\* was at setjmp or as it was assigned
AfterLongjmp(buf) ==
    IF buf.var = "nullptr" THEN {buf} ELSE {buf, [buf EXCEPT !.var = "nullptr"]}

\* if (buffer) { if (buffer[0]) std::free(buffer[0]); std::free(buffer); }
Freed(buf) ==
    IF buf.var = "nullptr" THEN buf
    ELSE [buf EXCEPT !.array = "freed",
                     !.row = IF @ = "live" THEN "freed" ELSE @]

\* sample k of scanline j as jpeg_read_scanlines leaves it in buffer[0]
Sample(j, k) == (37 * j + 11 * k + 5) % 256

\* the pixel made of scanline j for column i when there are s components
JpegPixel(j, i, s) ==
    IF s = 1
    THEN RgbT(255, Sample(j, i), Sample(j, i), Sample(j, i))
    ELSE RgbT(255, Sample(j, i * s), Sample(j, i * s + 1),
              Sample(j, i * s + 2))

\* the for loop over i: bitmap.pix(j, i) = rgb_t(...)
RowStored(b, j, w, s) ==
    [b EXCEPT !.pix =
        [k \in DOMAIN @ |->
            IF k \in (j * b.rowpixels) .. (j * b.rowpixels + w - 1)
            THEN JpegPixel(j, k - j * b.rowpixels, s)
            ELSE @[k]]]

\* a line given to osd_printf_error
Diagnostic(text) == [event |-> text, y |-> 0, x |-> 0, alpha |-> 0]

\* the row j of the bitmap was stored
RowEvent(j) == [event |-> "row", y |-> j, x |-> 0, alpha |-> 255]

\* the decoder calls during which fill_input_buffer is called
JpegReaders == {"j_header", "j_start", "j_scan"}

\* bitmap.reset(), the locals, setjmp returning 0
LoadJpegEnter ==
    /\ pc = "jpeg"
    /\ bitmap' = ResetBitmap
    /\ buffer' = NoBuffer
    /\ cinfo' = NoDecoder
    /\ pc' = "j_create"
    /\ UNCHANGED <<file, bitmap0, png, overlay, result, log>>
    /\ UNCHANGED <<hqvars, clipvars, linevars>>
    /\ UNCHANGED hwvars

LoadJpegCreate ==
    /\ JpegCreate("j_create", "j_source")
    /\ UNCHANGED <<file, bitmap, bitmap0, buffer, png, overlay, result, log>>
    /\ UNCHANGED <<hqvars, clipvars, linevars>>
    /\ UNCHANGED hwvars

LoadJpegSource ==
    /\ JpegSource("j_source", "j_init")
    /\ UNCHANGED <<file, bitmap, bitmap0, buffer, png, overlay, result, log>>
    /\ UNCHANGED <<hqvars, clipvars, linevars>>
    /\ UNCHANGED hwvars

LoadJpegInit ==
    /\ JpegInit("j_init", "j_header")
    /\ UNCHANGED <<file, bitmap, bitmap0, buffer, png, overlay, result, log>>
    /\ UNCHANGED <<hqvars, clipvars, linevars>>
    /\ UNCHANGED hwvars

LoadJpegFill ==
    /\ \E at \in JpegReaders : JpegFill(at)
    /\ UNCHANGED <<bitmap, bitmap0, buffer, png, overlay, result, log>>
    /\ UNCHANGED <<hqvars, clipvars, linevars>>
    /\ UNCHANGED hwvars

LoadJpegRaises ==
    /\ \E at \in JpegReaders : JpegRaises(at)
    /\ UNCHANGED <<file, bitmap, bitmap0, buffer, png, overlay, result, log>>
    /\ UNCHANGED <<hqvars, clipvars, linevars>>
    /\ UNCHANGED hwvars

\* jpeg_read_header returns: the image size is known
LoadJpegHeader ==
    /\ JpegHeaderReturns("j_header", "j_start")
    /\ \E im \in JpegImages :
          cinfo' = [cinfo EXCEPT !.output_width = im[1],
                                 !.output_height = im[2],
                                 !.output_components = im[3]]
    /\ UNCHANGED <<file, bitmap, bitmap0, buffer, png, overlay, result, log>>
    /\ UNCHANGED <<hqvars, clipvars, linevars>>
    /\ UNCHANGED hwvars

\* jpeg_start_decompress returns; bitmap.allocate and the two mallocs, each
\* of which may fail; the else branch of the test on them
LoadJpegAllocate ==
    /\ pc = "j_start"
    /\ cinfo.output_width > 0
    /\ \E gotBitmap \in BOOLEAN, gotArray \in BOOLEAN, gotRow \in BOOLEAN :
          LET b == IF gotBitmap
                   THEN Allocated(cinfo.output_width, cinfo.output_height)
                   ELSE bitmap
              buf == Malloced(gotArray, gotRow)
              ready == Valid(b) /\ buf.var # "nullptr" /\ buf.row # "none"
          IN  /\ buffer' = buf
              /\ bitmap' = IF ready THEN b ELSE ResetBitmap
              /\ log' = IF ready THEN log
                        ELSE Append(log, Diagnostic(
                                 "Error allocating memory for JPEG image."))
              /\ pc' = IF ready THEN "j_scan" ELSE "j_finish"
    /\ UNCHANGED <<file, cinfo, bitmap0, png, overlay, result>>
    /\ UNCHANGED <<hqvars, clipvars, linevars>>
    /\ UNCHANGED hwvars

\* one turn of the while loop: jpeg_read_scanlines returns, the row is
\* stored or the component count refused
LoadJpegScanline ==
    /\ pc = "j_scan"
    /\ cinfo.output_scanline < cinfo.output_height
    /\ LET j == cinfo.output_scanline
           s == cinfo.output_components
       IN  /\ cinfo' = [cinfo EXCEPT !.output_scanline = j + 1]
           /\ IF s = 1 \/ s = 3
              THEN /\ bitmap' = RowStored(bitmap, j, cinfo.output_width, s)
                   /\ log' = Append(log, RowEvent(j))
                   /\ pc' = IF j + 1 < cinfo.output_height
                            THEN "j_scan" ELSE "j_finish"
              ELSE /\ bitmap' = ResetBitmap
                   /\ log' = Append(log, Diagnostic(
                                 "Cannot read JPEG data from file."))
                   /\ pc' = "j_finish"
    /\ UNCHANGED <<file, bitmap0, buffer, png, overlay, result>>
    /\ UNCHANGED <<hqvars, clipvars, linevars>>
    /\ UNCHANGED hwvars

\* jpeg_finish_decompress: it raises JERR_TOO_LITTLE_DATA when scanlines
\* are left unread, else it returns
LoadJpegFinish ==
    /\ pc = "j_finish"
    /\ IF cinfo.output_scanline < cinfo.output_height
       THEN /\ cinfo' = Raised(cinfo, "JERR_TOO_LITTLE_DATA")
            /\ pc' = JumpTarget(pc)
       ELSE /\ cinfo' = cinfo
            /\ pc' = "j_cleanup"
    /\ UNCHANGED <<file, bitmap, bitmap0, buffer, png, overlay, result, log>>
    /\ UNCHANGED <<hqvars, clipvars, linevars>>
    /\ UNCHANGED hwvars

\* setjmp returns nonzero: the message, bitmap.reset(), goto cleanup
LoadJpegError ==
    /\ pc = "j_error"
    /\ bitmap' = ResetBitmap
    /\ buffer' \in AfterLongjmp(buffer)
    /\ log' = Append(log, Diagnostic("JPEG error reading data from file"))
    /\ pc' = "j_cleanup"
    /\ UNCHANGED <<file, cinfo, bitmap0, png, overlay, result>>
    /\ UNCHANGED <<hqvars, clipvars, linevars>>
    /\ UNCHANGED hwvars

\* cleanup: jpeg_destroy_decompress and the frees
LoadJpegCleanup ==
    /\ pc = "j_cleanup"
    /\ cinfo' = Destroyed(cinfo)
    /\ buffer' = Freed(buffer)
    /\ result' = "returned"
    /\ pc' = "j_done"
    /\ UNCHANGED <<file, bitmap, bitmap0, png, overlay, log>>
    /\ UNCHANGED <<hqvars, clipvars, linevars>>
    /\ UNCHANGED hwvars

LoadJpegNext ==
    \/ LoadJpegEnter
    \/ LoadJpegCreate
    \/ LoadJpegSource
    \/ LoadJpegInit
    \/ LoadJpegFill
    \/ LoadJpegRaises
    \/ LoadJpegHeader
    \/ LoadJpegAllocate
    \/ LoadJpegScanline
    \/ LoadJpegFinish
    \/ LoadJpegError
    \/ LoadJpegCleanup

(***************************************************************************)
(* copy_png_alpha_to_bitmap                                                *)
(***************************************************************************)

\* a & b on bytes, bits counting the bits still to combine
RECURSIVE BitAndBits(_, _, _)
BitAndBits(a, b, bits) ==
    IF bits = 0 THEN 0
    ELSE (a % 2) * (b % 2) + 2 * BitAndBits(a \div 2, b \div 2, bits - 1)

BitAnd(a, b) == BitAndBits(a, b, 8)

\* rgb_t::brightness()
Brightness(r, g, b) == (r * 222 + g * 707 + b * 71) \div 1000

\* samples[png.color_type]
Samples(color_type) == <<1, 0, 3, 1, 2, 0, 4>>[color_type + 1]

\* the adam7 interlace tables
XBias == <<7, 3, 3, 1, 1, 0, 0>>

YBias == <<7, 7, 3, 3, 1, 1, 0>>

XShift == <<3, 3, 2, 2, 1, 1, 0>>

YShift == <<3, 3, 3, 2, 2, 1, 1>>

\* 1 << n
Pow2(n) == <<1, 2, 4, 8>>[n + 1]

\* pass_count
PassCount(p) == IF p.interlace_method # 0 THEN 7 ELSE 1

PassWidthNoBias(p, pass) ==
    IF p.interlace_method # 0
    THEN p.width \div Pow2(XShift[pass + 1])
    ELSE p.width

\* width and height of a pass, pass counted from 0
PassWidth(p, pass) ==
    IF p.interlace_method # 0
    THEN (p.width + XBias[pass + 1]) \div Pow2(XShift[pass + 1])
    ELSE p.width

PassHeight(p, pass) ==
    IF p.interlace_method # 0
    THEN (p.height + YBias[pass + 1]) \div Pow2(YShift[pass + 1])
    ELSE p.height

\* rowbytes of a pass
RowBytes(p, pass) ==
    (PassWidth(p, pass) * Samples(p.color_type) * p.bit_depth + 7) \div 8

\* pass_offset[pass]
RECURSIVE PassOffset(_, _)
PassOffset(p, pass) ==
    IF pass = 0 THEN 0
    ELSE PassOffset(p, pass - 1)
         + PassHeight(p, pass - 1) * (RowBytes(p, pass - 1) + 1)

\* x_trans and y_trans of a pass
XTrans(pass, x) ==
    x * Pow2(XShift[pass + 1])
    + (Pow2(XShift[pass + 1]) - XBias[pass + 1] - 1)

YTrans(pass, y) ==
    y * Pow2(YShift[pass + 1])
    + (Pow2(YShift[pass + 1]) - YBias[pass + 1] - 1)

\* the row and column of the bitmap that pixel (y, x) of a pass lands on
Target(p, pass, y, x) ==
    IF p.interlace_method # 0
    THEN <<YTrans(pass, y), XTrans(pass, x)>>
    ELSE <<y, x>>

\* the bytes src advances by after each pixel, as each branch writes it
SrcStep(color_type) ==
    CASE color_type = 3 -> 1
      [] color_type = 0 -> 1
      [] color_type = 4 -> 2
      [] color_type = 2 -> 3
      [] OTHER -> 4

\* the index in png.image of src when the loops of a pass reach (y, x)
SrcIndex(p, pass, y, x) ==
    PassOffset(p, pass)
    + (y * PassWidth(p, pass) + x) * SrcStep(p.color_type)

\* png.image[i] and png.palette[i]; a byte outside the array reads as 0
ImageAt(p, i) == IF i \in DOMAIN p.image THEN p.image[i] ELSE 0

PaletteAt(p, i) == IF i \in DOMAIN p.palette THEN p.palette[i] ELSE 0

AlphaFromLastSample(p, src) ==
    CASE p.color_type = 3 ->
            Brightness(PaletteAt(p, ImageAt(p, src) * 3),
                       PaletteAt(p, ImageAt(p, src) * 3 + 1),
                       PaletteAt(p, ImageAt(p, src) * 3 + 2))
      [] p.color_type = 0 -> ImageAt(p, src)
      [] p.color_type = 4 -> ImageAt(p, src + 1)
      [] p.color_type = 2 ->
            Brightness(ImageAt(p, src), ImageAt(p, src + 1),
                       ImageAt(p, src + 2))
      [] OTHER -> ImageAt(p, src + 3)

\* alpha of the pixel at src: the brightness of the palette entry, the gray
\* sample, or the brightness of the three colour samples
AlphaAt(p, src) ==
    CASE p.color_type = 3 ->
            Brightness(PaletteAt(p, ImageAt(p, src) * 3),
                       PaletteAt(p, ImageAt(p, src) * 3 + 1),
                       PaletteAt(p, ImageAt(p, src) * 3 + 2))
      [] p.color_type = 0 -> ImageAt(p, src)
      [] p.color_type = 4 -> ImageAt(p, src)
      [] p.color_type = 2 ->
            Brightness(ImageAt(p, src), ImageAt(p, src + 1),
                       ImageAt(p, src + 2))
      [] OTHER ->
            Brightness(ImageAt(p, src), ImageAt(p, src + 1),
                       ImageAt(p, src + 2))

\* one assignment to dest: the place in the bitmap and the alpha stored
Write(y, x, alpha) == [event |-> "pixel", y |-> y, x |-> x, alpha |-> alpha]

\* the assignments of one pass, in the order of its two loops
PassWrites(p, pass) ==
    [n \in 1 .. (PassWidth(p, pass) * PassHeight(p, pass)) |->
        LET y == (n - 1) \div PassWidth(p, pass)
            x == (n - 1) % PassWidth(p, pass)
            t == Target(p, pass, y, x)
        IN  Write(t[1], t[2], AlphaAt(p, SrcIndex(p, pass, y, x)))]

\* the assignments of passes pass .. pass_count - 1
RECURSIVE WritesFrom(_, _)
WritesFrom(p, pass) ==
    IF pass >= PassCount(p) THEN << >>
    ELSE PassWrites(p, pass) \o WritesFrom(p, pass + 1)

RecolouredGray(pixel, alpha) == RgbT(alpha, alpha, alpha, alpha)

\* rgb_t(alpha, pixel.r(), pixel.g(), pixel.b())
Recoloured(pixel, alpha) == RgbT(alpha, pixel.r, pixel.g, pixel.b)

\* a pixel of dest after the assignments of ws numbered in hits went to
\* it, in their order
RECURSIVE Rewritten(_, _, _)
Rewritten(pixel, ws, hits) ==
    IF hits = {} THEN pixel
    ELSE LET last == CHOOSE i \in hits : \A j \in hits : j <= i
         IN  Recoloured(Rewritten(pixel, ws, hits \ {last}), ws[last].alpha)

\* the bitmap after the first n assignments of ws to dest: each pixel after
\* the assignments that went to it
Overlaid(b, ws, n) ==
    [b EXCEPT !.pix =
        [at \in DOMAIN b.pix |->
            Rewritten(b.pix[at], ws,
                      {i \in 1 .. n : ws[i].y * b.rowpixels + ws[i].x = at})]]

AccumAlphaLast(ws) == IF ws = << >> THEN 255 ELSE ws[Len(ws)].alpha

\* accumalpha after the assignments ws: the alphas of the first half and of
\* the rest, anded together
RECURSIVE AccumAlpha(_)
AccumAlpha(ws) ==
    IF ws = << >> THEN 255
    ELSE IF Len(ws) = 1 THEN BitAnd(255, ws[1].alpha)
    ELSE LET half == Len(ws) \div 2
         IN  BitAnd(AccumAlpha(SubSeq(ws, 1, half)),
                    AccumAlpha(SubSeq(ws, half + 1, Len(ws))))

\* copy_png_alpha_to_bitmap: the bitmap, the value returned, the assignments
CopyPngAlphaToBitmap(b, p) ==
    LET ws == WritesFrom(p, 0)
    IN  [bitmap |-> Overlaid(b, ws, Len(ws)),
         hasalpha |-> AccumAlpha(ws) # 255,
         writes |-> ws]

(***************************************************************************)
(* render_load_png and render_load_msdib                                   *)
(***************************************************************************)

\* the sizes, colour types and pixel contents of the images of the model
PngSizes == {<<0, 0>>, <<1, 1>>, <<2, 1>>, <<3, 3>>}

ColorTypes == {0, 2, 3, 4, 6}

PngKinds == {"white", "dark_opaque", "white_clear", "mixed", "speck"}

\* sample c of a pixel is its alpha sample
IsAlphaSample(color_type, c) ==
    (color_type = 6 /\ c = 3) \/ (color_type = 4 /\ c = 1)

\* sample c of the pixel of row ty and column tx in an image of a kind: a
\* palette index for colour type 3
SampleOf(kind, color_type, ty, tx, c) ==
    IF color_type = 3
    THEN CASE kind = "dark_opaque" -> 0
           [] kind = "mixed" -> (ty + 2 * tx) % 3
           [] kind = "speck" -> IF ty = 0 /\ tx = 1 THEN 2 ELSE 1
           [] OTHER -> 1
    ELSE CASE kind = "white" -> 255
           [] kind = "dark_opaque" ->
                IF IsAlphaSample(color_type, c) THEN 255 ELSE 0
           [] kind = "white_clear" ->
                IF IsAlphaSample(color_type, c) THEN 128 ELSE 255
           [] kind = "speck" -> IF ty = 0 /\ tx = 1 THEN 254 ELSE 255
           [] OTHER -> (17 + 90 * ty + 37 * tx + 51 * c) % 256

\* a palette of black, white and a green
Palette == [i \in 0 .. 8 |-> <<0, 0, 0, 255, 255, 255, 10, 200, 30>>[i + 1]]

\* png_info without its image
PngHeader(size, color_type, interlace_method, bit_depth) ==
    [width |-> size[1], height |-> size[2], color_type |-> color_type,
     interlace_method |-> interlace_method, bit_depth |-> bit_depth,
     palette |-> Palette, image |-> << >>]

\* the places of the image that hold sample c of a pixel at index i
SamplesAt(p, i) ==
    {z \in (0 .. PassCount(p) - 1) \X (0 .. p.height - 1)
           \X (0 .. p.width - 1) \X (0 .. 3) :
        /\ z[2] < PassHeight(p, z[1])
        /\ z[3] < PassWidth(p, z[1])
        /\ z[4] < SrcStep(p.color_type)
        /\ SrcIndex(p, z[1], z[2], z[3]) + z[4] = i}

\* png.image of an image of a kind, 8 bits a sample, each pass at its
\* pass_offset; the bytes between the passes are 0
PngImage(p, kind) ==
    [i \in 0 .. (PassOffset(p, PassCount(p)) - 1) |->
        IF SamplesAt(p, i) = {} THEN 0
        ELSE LET z == CHOOSE z \in SamplesAt(p, i) : TRUE
                 t == Target(p, z[1], z[2], z[3])
             IN  SampleOf(kind, p.color_type, t[1], t[2], z[4])]

PngOf(size, color_type, interlace_method, bit_depth, kind) ==
    LET p == PngHeader(size, color_type, interlace_method, 8)
    IN  [p EXCEPT !.image = PngImage(p, kind), !.bit_depth = bit_depth]

\* the images of the model as read_file leaves them: all of 8 bits, and
\* some of 4 and of 16 bits
Pngs ==
    {PngOf(size, ct, il, 8, kind) :
        size \in PngSizes, ct \in ColorTypes, il \in {0, 1},
        kind \in PngKinds}
    \cup {PngOf(<<2, 1>>, ct, 0, depth, "mixed") :
            ct \in ColorTypes, depth \in {4, 16}}

\* no image
NoPng == PngHeader(<<0, 0>>, 0, 0, 8)

\* the bitmaps passed with an image: empty, of another size, of its size
DestinationsFor(p) ==
    Destinations
    \cup {MakeBitmap(p.width, p.height, 1, 5) : z \in {p.width * p.height} \ {0}}

EnteredKeeping(b, load_as_alpha_to_existing) == b

\* if (!load_as_alpha_to_existing) bitmap.reset()
Entered(b, load_as_alpha_to_existing) ==
    IF load_as_alpha_to_existing THEN b ELSE ResetBitmap

\* the alpha png_info::copy_to_bitmap gives the pixel at src
NormalAlphaAt(p, src) ==
    CASE p.color_type = 6 -> ImageAt(p, src + 3)
      [] p.color_type = 4 -> ImageAt(p, src + 1)
      [] OTHER -> 255

\* the pixel png_info::copy_to_bitmap makes of the pixel at src
NormalPixelAt(p, src) ==
    CASE p.color_type = 3 ->
            RgbT(255, PaletteAt(p, ImageAt(p, src) * 3),
                 PaletteAt(p, ImageAt(p, src) * 3 + 1),
                 PaletteAt(p, ImageAt(p, src) * 3 + 2))
      [] p.color_type \in {0, 4} ->
            RgbT(NormalAlphaAt(p, src), ImageAt(p, src), ImageAt(p, src),
                 ImageAt(p, src))
      [] OTHER ->
            RgbT(NormalAlphaAt(p, src), ImageAt(p, src), ImageAt(p, src + 1),
                 ImageAt(p, src + 2))

\* the pass and place in it that hold the pixel of row ty and column tx
HolderOf(p, ty, tx) ==
    CHOOSE z \in (0 .. PassCount(p) - 1) \X (0 .. p.height - 1)
                 \X (0 .. p.width - 1) :
        /\ z[2] < PassHeight(p, z[1])
        /\ z[3] < PassWidth(p, z[1])
        /\ Target(p, z[1], z[2], z[3]) = <<ty, tx>>

\* png_info::copy_to_bitmap when it succeeds: a bitmap of the size of the
\* image, and hasalpha set when some alpha is not 0xFF
CopyToBitmap(p) ==
    LET at(k) == LET z == HolderOf(p, k \div p.width, k % p.width)
                 IN  SrcIndex(p, z[1], z[2], z[3])
        cells == 0 .. (p.width * p.height - 1)
    IN  [bitmap |-> [width |-> p.width, height |-> p.height,
                     rowpixels |-> p.width,
                     pix |-> [k \in cells |-> NormalPixelAt(p, at(k))]],
         hasalpha |-> \E k \in cells : NormalAlphaAt(p, at(k)) # 255]

\* what the bool returned reads as
BoolResult(b) == IF b THEN "true" ELSE "false"

\* the entry of render_load_png with png.read_file, which fails or leaves
\* the image in png
LoadPngRead ==
    /\ pc = "png"
    /\ bitmap' = Entered(bitmap, overlay)
    /\ \E ok \in BOOLEAN :
          /\ ok => "png" \in file.accepts
          /\ file' = ReadUpTo(file, file.size)
          /\ pc' = IF ok THEN "p_expand" ELSE "p_done"
          /\ result' = IF ok THEN result ELSE "false"
          /\ log' = IF ok THEN log
                    ELSE Append(log, Diagnostic("Error reading PNG file"))
    /\ UNCHANGED <<bitmap0, cinfo, buffer, png, overlay>>
    /\ UNCHANGED <<hqvars, clipvars, linevars>>
    /\ UNCHANGED hwvars

\* png.expand_buffer_8bit: it has nothing to do for 8 bits and more, else
\* it fails or leaves samples of 8 bits
LoadPngExpand ==
    /\ pc = "p_expand"
    /\ \E ok \in BOOLEAN :
          /\ ~ok => png.bit_depth < 8
          /\ png' = IF png.bit_depth < 8 /\ ok
                    THEN [png EXCEPT !.bit_depth = 8] ELSE png
          /\ pc' = IF ok THEN "p_copy" ELSE "p_done"
          /\ result' = IF ok THEN result ELSE "false"
          /\ log' = IF ok THEN log
                    ELSE Append(log, Diagnostic("Error upsampling PNG bitmap"))
    /\ UNCHANGED <<file, bitmap, bitmap0, cinfo, buffer, overlay>>
    /\ UNCHANGED <<hqvars, clipvars, linevars>>
    /\ UNCHANGED hwvars

\* the non-alpha case: png.copy_to_bitmap fails, or fills the bitmap
LoadPngCopy ==
    /\ pc = "p_copy"
    /\ ~overlay
    /\ \E ok \in BOOLEAN :
          /\ bitmap' = IF ok THEN CopyToBitmap(png).bitmap ELSE bitmap
          /\ result' = BoolResult(ok /\ CopyToBitmap(png).hasalpha)
          /\ log' = IF ok THEN log
                    ELSE Append(log, Diagnostic(
                             "Error copying PNG bitmap to MAME bitmap"))
    /\ pc' = "p_done"
    /\ UNCHANGED <<file, bitmap0, cinfo, buffer, png, overlay>>
    /\ UNCHANGED <<hqvars, clipvars, linevars>>
    /\ UNCHANGED hwvars

\* the alpha case: the sizes are compared, then the bit depth is checked
\* and copy_png_alpha_to_bitmap called
LoadPngAlpha ==
    /\ pc = "p_copy"
    /\ overlay
    /\ IF png.width = bitmap.width /\ png.height = bitmap.height
       THEN IF png.bit_depth > 8
            THEN /\ bitmap' = bitmap
                 /\ result' = "false"
                 /\ log' = Append(log, Diagnostic("Unsupported bit depth"))
            ELSE LET r == CopyPngAlphaToBitmap(bitmap, png)
                 IN  /\ bitmap' = r.bitmap
                     /\ result' = BoolResult(r.hasalpha)
                     /\ log' = log \o r.writes
       ELSE /\ bitmap' = bitmap
            /\ result' = "false"
            /\ log' = log
    /\ pc' = "p_done"
    /\ UNCHANGED <<file, bitmap0, cinfo, buffer, png, overlay>>
    /\ UNCHANGED <<hqvars, clipvars, linevars>>
    /\ UNCHANGED hwvars

\* render_load_msdib: bitmap.reset(), msdib_read_bitmap, which fills the
\* bitmap or fails and leaves it in any state, and the reset after an error
LoadMsdib ==
    /\ pc = "msdib"
    /\ \E ok \in BOOLEAN, left \in {ResetBitmap, Allocated(1, 2)} :
          /\ ok => "dib" \in file.accepts /\ Valid(left)
          /\ bitmap' = IF ok THEN left ELSE ResetBitmap
          /\ log' = IF ok THEN log
                    ELSE Append(log, Diagnostic(
                             "Error reading Microsoft DIB file"))
    /\ file' = ReadUpTo(file, file.size)
    /\ result' = "returned"
    /\ pc' = "m_done"
    /\ UNCHANGED <<bitmap0, cinfo, buffer, png, overlay>>
    /\ UNCHANGED <<hqvars, clipvars, linevars>>
    /\ UNCHANGED hwvars

LoadNext ==
    \/ LoadJpegNext
    \/ LoadPngRead
    \/ LoadPngExpand
    \/ LoadPngCopy
    \/ LoadPngAlpha
    \/ LoadMsdib

\* a call of render_load_msdib or render_load_jpeg on any stream of the
\* model, or of render_load_png in either mode on an image of the model
LoadInit ==
    /\ pc \in {"msdib", "jpeg", "png"}
    /\ IF pc = "png"
       THEN /\ file \in {NewFile(5000, {"png"}), NewFile(4, {})}
            /\ png \in Pngs
            /\ overlay \in BOOLEAN
            /\ bitmap \in DestinationsFor(png)
       ELSE /\ file \in Files
            /\ png = NoPng
            /\ overlay = FALSE
            /\ bitmap \in Destinations
    /\ bitmap0 = bitmap
    /\ cinfo = NoDecoder
    /\ buffer = NoBuffer
    /\ result = "none"
    /\ log = << >>
    /\ HqIdle
    /\ ClipIdle
    /\ LineIdle
    /\ HwIdle

SpecLoad == LoadInit /\ [][LoadNext]_vars

(***************************************************************************)
(* render_resample_argb_bitmap_hq on integer magnifications                *)
(***************************************************************************)

\* the source sizes and factors of the magnifications of the model: every
\* small size with every factor up to 4 by 3, and two wide single rows
Magnifications ==
    {[sw |-> sw, sh |-> sh, kx |-> kx, ky |-> ky] :
        sw \in 1 .. 5, sh \in 1 .. 2, kx \in 1 .. 4, ky \in 1 .. 3}
    \cup {[sw |-> sw, sh |-> 1, kx |-> kx, ky |-> 1] :
            sw \in {683, 700}, kx \in 2 .. 4}

\* a call with the opaque white tint on a destination whose width and height
\* are multiples of the width and height of the source
MagnifyInit ==
    /\ pc = "call"
    /\ \E m \in Magnifications, pad \in {0, 1} :
          /\ source = MakeBitmap(m.sw, m.sh, pad, 188)
          /\ dest = MakeBitmap(m.kx * m.sw, m.ky * m.sh, pad, 32)
    /\ dest0 = dest
    /\ color = [r |-> FInt(1), g |-> FInt(1), b |-> FInt(1), a |-> FInt(1)]
    /\ force \in BOOLEAN
    /\ sampler = "none"
    /\ dx = 0
    /\ dy = 0
    /\ sreads = {}
    /\ ClipIdle
    /\ LineIdle
    /\ ImgIdle
    /\ HwIdle

SpecMagnify == MagnifyInit /\ [][ResampleHq]_vars

(***************************************************************************)
(* render_load_png on interlaced images, as an overlay                     *)
(***************************************************************************)

\* the largest width and height of the interlaced images, and the largest
\* number of pixels
MaxSide == 9

MaxArea == 36

\* an interlaced grayscale image of a size, 8 bits a sample
InterlacedPng(w, h) ==
    LET p == PngHeader(<<w, h>>, 0, 1, 8)
    IN  [p EXCEPT !.image =
            [i \in 0 .. (PassOffset(p, PassCount(p)) - 1) |->
                (200 + 11 * i) % 256]]

\* a call of render_load_png with load_as_alpha_to_existing set, on an
\* interlaced image and a bitmap of its size
InterlaceInit ==
    /\ pc = "png"
    /\ file = NewFile(5000, {"png"})
    /\ \E w \in 1 .. MaxSide, h \in 1 .. MaxSide :
          /\ w * h <= MaxArea
          /\ png = InterlacedPng(w, h)
          /\ bitmap = MakeBitmap(w, h, 1, 5)
    /\ overlay = TRUE
    /\ bitmap0 = bitmap
    /\ cinfo = NoDecoder
    /\ buffer = NoBuffer
    /\ result = "none"
    /\ log = << >>
    /\ HqIdle
    /\ ClipIdle
    /\ LineIdle
    /\ HwIdle

InterlaceNext ==
    \/ LoadPngRead
    \/ LoadPngExpand
    \/ LoadPngAlpha

SpecInterlace == InterlaceInit /\ [][InterlaceNext]_vars

(***************************************************************************)
(* jpeg_corefile_source::do_skip, as the decoder calls it                  *)
(***************************************************************************)

\* the values of num_bytes the decoder passes to skip_input_data
SkipCounts == {-1, 0, 1, 2, 3, 7, 200, 4097}

\* the numbers of bytes the decoder leaves in the buffer when it stops
\* reading
Leftovers == {0, 1, 3, 100}

\* the source after jpeg_create_decompress, source() and do_init, with the
\* locals of do_skip: num_bytes, its value on entry (requested), and what
\* the properties count: bytes_in_buffer on entry (had), the bytes the
\* refills of do_skip delivered and their number
SkipDecoder ==
    DoInit(SourceSet([NoDecoder EXCEPT !.creates = 1]))
    @@ [num_bytes |-> 0, requested |-> 0, had |-> 0, delivered |-> 0,
        refills |-> 0]

\* the decoder reads a stream through the source
SkipInit ==
    /\ pc = "s_read"
    /\ file \in {NewFile(size, {"jpeg"}) : size \in FileSizes \ {0}}
               \cup {NewFile(0, {})}
    /\ cinfo = SkipDecoder
    /\ bitmap = ResetBitmap
    /\ bitmap0 = bitmap
    /\ buffer = NoBuffer
    /\ png = NoPng
    /\ overlay = FALSE
    /\ result = "none"
    /\ log = << >>
    /\ HqIdle
    /\ ClipIdle
    /\ LineIdle
    /\ HwIdle

\* the decoder finds the buffer empty and calls fill_input_buffer
SkipReaderFill ==
    /\ pc = "s_read"
    /\ cinfo.bytes_in_buffer = 0
    /\ cinfo.fills < MaxFills
    /\ \E sof \in StartOfFileRead(cinfo) :
          LET r == DoFill(cinfo, file, sof)
          IN  /\ cinfo' = r.cinfo
              /\ file' = r.file
              /\ pc' = IF r.raised THEN "s_raised" ELSE pc
    /\ UNCHANGED <<bitmap, bitmap0, buffer, png, overlay, result, log>>
    /\ UNCHANGED <<hqvars, clipvars, linevars>>
    /\ UNCHANGED hwvars

\* the decoder takes bytes from the buffer
SkipReaderConsume ==
    /\ pc = "s_read"
    /\ \E left \in Leftovers :
          /\ left < cinfo.bytes_in_buffer
          /\ cinfo' = [cinfo EXCEPT !.bytes_in_buffer = left]
    /\ UNCHANGED <<pc, file>>
    /\ UNCHANGED <<bitmap, bitmap0, buffer, png, overlay, result, log>>
    /\ UNCHANGED <<hqvars, clipvars, linevars>>
    /\ UNCHANGED hwvars

SkipNeverRefills(ci) == FALSE

\* long(src.bytes_in_buffer) < num_bytes, the test of the loop
SkipNeedsMore(ci) == ci.bytes_in_buffer < ci.num_bytes

\* the decoder, having read a marker, calls skip_input_data(cinfo,
\* num_bytes): "if (0 < num_bytes)", else do_skip returns
SkipCall ==
    /\ pc = "s_read"
    /\ cinfo.fills >= 1
    /\ \E n \in SkipCounts :
          /\ cinfo' = [cinfo EXCEPT !.num_bytes = n, !.requested = n,
                                    !.had = cinfo.bytes_in_buffer,
                                    !.delivered = 0, !.refills = 0]
          /\ pc' = IF 0 < n THEN "s_loop" ELSE "s_done"
    /\ UNCHANGED file
    /\ UNCHANGED <<bitmap, bitmap0, buffer, png, overlay, result, log>>
    /\ UNCHANGED <<hqvars, clipvars, linevars>>
    /\ UNCHANGED hwvars

\* the body of the loop: num_bytes -= long(src.bytes_in_buffer), then
\* fill_input_buffer, which returns or raises
SkipRefill ==
    /\ pc = "s_loop"
    /\ SkipNeedsMore(cinfo)
    /\ \E sof \in StartOfFileRead(cinfo) :
          LET less == [cinfo EXCEPT !.num_bytes = @ - cinfo.bytes_in_buffer]
              r    == DoFill(less, file, sof)
          IN  /\ cinfo' = IF r.raised THEN r.cinfo
                          ELSE [r.cinfo EXCEPT
                                   !.delivered = @ + r.cinfo.bytes_in_buffer,
                                   !.refills = @ + 1]
              /\ file' = r.file
              /\ pc' = IF r.raised THEN "s_raised" ELSE pc
    /\ UNCHANGED <<bitmap, bitmap0, buffer, png, overlay, result, log>>
    /\ UNCHANGED <<hqvars, clipvars, linevars>>
    /\ UNCHANGED hwvars

\* after the loop: src.next_input_byte += num_bytes and
\* src.bytes_in_buffer -= num_bytes, and do_skip returns
SkipAdvance ==
    /\ pc = "s_loop"
    /\ ~SkipNeedsMore(cinfo)
    /\ cinfo' = [cinfo EXCEPT !.bytes_in_buffer = @ - cinfo.num_bytes]
    /\ pc' = "s_done"
    /\ UNCHANGED file
    /\ UNCHANGED <<bitmap, bitmap0, buffer, png, overlay, result, log>>
    /\ UNCHANGED <<hqvars, clipvars, linevars>>
    /\ UNCHANGED hwvars

SkipNext ==
    \/ SkipReaderFill
    \/ SkipReaderConsume
    \/ SkipCall
    \/ SkipRefill
    \/ SkipAdvance

\* do_skip, once called, keeps running: its steps are not postponed for ever
SpecSkip ==
    /\ SkipInit
    /\ [][SkipNext]_vars
    /\ WF_vars(SkipRefill)
    /\ WF_vars(SkipAdvance)

(***************************************************************************)
(* dc_cons_state: the GD-ROM DMA of the G1 bus                             *)
(***************************************************************************)

\* a DMA is followed for at most MaxSectors sectors
MaxSectors == 3

\* the registers of g1bus_regs the model holds
G1Regs == {"SB_GDST", "SB_GDEN", "SB_GDDIR", "SB_GDSTAR", "SB_GDLEN"}

\* the values the guest writes to a register, all below 2^31
G1Values(offset) ==
    CASE offset = "SB_GDLEN"  -> {0, 100, 2048, 4096}
      [] offset = "SB_GDSTAR" -> {4096, 65536}
      [] OTHER -> {0, 1}

\* atapi_timer->adjust(attotime::never) and adjust(from_usec(...), param)
TimerNever == [enabled |-> FALSE, param |-> 0]

TimerIn(param) == [enabled |-> TRUE, param |-> param]

\* the machine after dreamcast_atapi_init, its registers 0
GdromInit ==
    /\ pc = "machine"
    /\ g1bus_regs = [r \in G1Regs |-> 0]
    /\ dc_sysctrl_regs = {}
    /\ atapi_xferlen = 0
    /\ atapi_xferbase = 0
    /\ atapi_xfercomplete = 0
    /\ atapi_timer = TimerNever
    /\ dmack = 0
    /\ ddt = << >>
    /\ quiet = FALSE
    /\ assertion = "none"
    /\ RawIdle
    /\ HqIdle
    /\ ClipIdle
    /\ LineIdle
    /\ ImgIdle

\* dc_mess_g1_ctrl_r
G1CtrlR(offset) ==
    CASE offset = "SB_GDSTARD" -> atapi_xferbase
      [] offset = "SB_GDLEND" -> atapi_xfercomplete
      [] offset = "SB_SECUR_EADR" -> 255
      [] offset = "SB_SECUR_STATE" -> 3
      [] OTHER -> g1bus_regs[offset]

\* "data & 1 && g1bus_regs[SB_GDEN] == 1" on a write to SB_GDST, and the
\* direction is not the illegal one
StartsDma(offset, data) ==
    /\ offset = "SB_GDST"
    /\ data % 2 = 1
    /\ g1bus_regs["SB_GDEN"] = 1
    /\ g1bus_regs["SB_GDDIR"] # 0

\* the whole of dc_mess_g1_ctrl_w for a write of data to the register
G1CtrlW(offset, data) ==
    /\ g1bus_regs' = [g1bus_regs EXCEPT ![offset] = data]
    /\ IF StartsDma(offset, data)
       THEN /\ atapi_xferbase' = g1bus_regs["SB_GDSTAR"]
            /\ atapi_xfercomplete' = 0
            /\ atapi_timer' = TimerIn(atapi_xferlen)
            /\ ddt' = << >>
            /\ quiet' = TRUE
            /\ UNCHANGED atapi_xferlen
       ELSE /\ atapi_xferlen' = IF offset = "SB_GDLEN" THEN data
                                ELSE atapi_xferlen
            /\ quiet' = FALSE
            /\ UNCHANGED <<atapi_xferbase, atapi_xfercomplete, atapi_timer,
                           ddt>>
    /\ UNCHANGED <<dc_sysctrl_regs, dmack, assertion>>

\* the guest writes a register
GuestWrites ==
    /\ pc = "machine"
    /\ assertion = "none"
    /\ \E offset \in G1Regs : \E data \in G1Values(offset) :
          G1CtrlW(offset, data)
    /\ UNCHANGED <<pc, rawvars>>
    /\ UNCHANGED <<hqvars, clipvars, linevars, imgvars>>

\* the timer fires: the whole of atapi_xfer_end
AtapiXferEnd ==
    /\ pc = "machine"
    /\ assertion = "none"
    /\ atapi_timer.enabled
    /\ IF atapi_xferlen < 0
       THEN /\ assertion' = "atapi_xfer_end"
            /\ UNCHANGED dcvars
       ELSE IF atapi_xferlen = 0
       THEN /\ atapi_timer' = TimerNever
            /\ g1bus_regs' = [g1bus_regs EXCEPT !["SB_GDST"] = 0]
            /\ dc_sysctrl_regs' = dc_sysctrl_regs \cup {"IST_DMA_GDROM"}
            /\ dmack' = 0
            /\ UNCHANGED <<atapi_xferlen, atapi_xferbase, atapi_xfercomplete,
                           ddt, quiet, assertion>>
       ELSE /\ Len(ddt) < MaxSectors
            /\ dmack' = 1
            /\ atapi_xfercomplete' = atapi_xfercomplete + 2048
            /\ ddt' = Append(ddt, atapi_xferbase)
            /\ atapi_xferlen' = atapi_xferlen - 2048
            /\ atapi_xferbase' = atapi_xferbase + 2048
            /\ atapi_timer' = TimerIn(atapi_xferlen')
            /\ UNCHANGED <<g1bus_regs, dc_sysctrl_regs, quiet, assertion>>
    /\ UNCHANGED <<pc, rawvars>>
    /\ UNCHANGED <<hqvars, clipvars, linevars, imgvars>>

GdromNext ==
    \/ GuestWrites
    \/ AtapiXferEnd

SpecGdrom == GdromInit /\ [][GdromNext]_vars

(***************************************************************************)
(* rawinput_module::handle_input_event                                     *)
(***************************************************************************)

\* events queued to one device and not yet processed, at most
MaxQueue == 2

\* the values of a HANDLE in an event: 0 is nullptr
Handles == 0 .. 3

\* the device IDs an arrival event can carry
DeviceIds == {"a", "b", "c"}

\* a rawinput_device as its constructor leaves it: the handle it was listed
\* with, its input state cleared, no event queued
NewDevice(id, handle) ==
    [id |-> id, m_handle |-> handle, state |-> 0, queued |-> 0]

\* the module after input_init listed two devices
RawInputInit ==
    /\ pc = "input"
    /\ devicelist = <<NewDevice("a", 1), NewDevice("b", 2)>>
    /\ handled = "none"
    /\ assertion = "none"
    /\ DcIdle
    /\ HqIdle
    /\ ClipIdle
    /\ LineIdle
    /\ ImgIdle

\* std::find_if over devicelist(): the index of the first of the devices
\* that match, or 0 for devicelist().end()
FindIf(matching) ==
    IF matching = {}
    THEN 0
    ELSE CHOOSE i \in matching : \A j \in matching : i <= j

\* reconnect_candidate
ReconnectCandidate(device, id) == device.m_handle = 0 /\ device.id = id

\* case INPUT_EVENT_RAWINPUT: GetRawInputData fails or gives data for the
\* device hDevice, which is looked up and given the event
HandleRawInput ==
    /\ pc = "input"
    /\ assertion = "none"
    /\ \E hDevice \in Handles, fetched \in BOOLEAN :
          LET target == FindIf({i \in DOMAIN devicelist :
                                   devicelist[i].m_handle = hDevice})
          IN  IF ~fetched \/ hDevice = 0 \/ target = 0
              THEN /\ handled' = "false"
                   /\ UNCHANGED devicelist
              ELSE /\ devicelist[target].queued < MaxQueue
                   /\ devicelist' =
                         [devicelist EXCEPT ![target].queued = @ + 1]
                   /\ handled' = "true"
    /\ UNCHANGED <<pc, assertion, dcvars>>
    /\ UNCHANGED <<hqvars, clipvars, linevars, imgvars>>

\* case INPUT_EVENT_ARRIVAL: the device name is fetched, the first
\* reconnect candidate with that ID is attached
HandleArrival ==
    /\ pc = "input"
    /\ assertion = "none"
    /\ \E rawinputdevice \in Handles, id \in DeviceIds, named \in BOOLEAN :
          LET target == FindIf({i \in DOMAIN devicelist :
                                   ReconnectCandidate(devicelist[i], id)})
          IN  IF ~named \/ target = 0
              THEN /\ handled' = "false"
                   /\ UNCHANGED <<devicelist, assertion>>
              ELSE IF devicelist[target].m_handle # 0
              THEN /\ assertion' = "attach_device"
                   /\ handled' = "none"
                   /\ UNCHANGED devicelist
              ELSE /\ devicelist' =
                         [devicelist EXCEPT ![target].m_handle = rawinputdevice]
                   /\ handled' = "true"
                   /\ UNCHANGED assertion
    /\ UNCHANGED <<pc, dcvars>>
    /\ UNCHANGED <<hqvars, clipvars, linevars, imgvars>>

\* case INPUT_EVENT_REMOVAL: the first device that holds the handle is
\* reset and detached
HandleRemoval ==
    /\ pc = "input"
    /\ assertion = "none"
    /\ \E rawinputdevice \in Handles :
          LET target == FindIf({i \in DOMAIN devicelist :
                                   devicelist[i].m_handle = rawinputdevice})
          IN  IF target = 0
              THEN /\ handled' = "false"
                   /\ UNCHANGED <<devicelist, assertion>>
              ELSE IF devicelist[target].m_handle = 0
              THEN /\ devicelist' = [devicelist EXCEPT ![target].state = 0]
                   /\ assertion' = "detach_device"
                   /\ handled' = "none"
              ELSE /\ devicelist' = [devicelist EXCEPT ![target].state = 0,
                                                       ![target].m_handle = 0]
                   /\ handled' = "true"
                   /\ UNCHANGED assertion
    /\ UNCHANGED <<pc, dcvars>>
    /\ UNCHANGED <<hqvars, clipvars, linevars, imgvars>>

\* process_event on a queued event: a key goes down or up
ProcessEvent ==
    /\ pc = "input"
    /\ assertion = "none"
    /\ \E i \in DOMAIN devicelist, down \in {0, 1} :
          /\ devicelist[i].queued > 0
          /\ devicelist' = [devicelist EXCEPT ![i].queued = @ - 1,
                                              ![i].state = down]
    /\ handled' = "none"
    /\ UNCHANGED <<pc, assertion, dcvars>>
    /\ UNCHANGED <<hqvars, clipvars, linevars, imgvars>>

RawInputNext ==
    \/ HandleRawInput
    \/ HandleArrival
    \/ HandleRemoval
    \/ ProcessEvent

SpecRawInput == RawInputInit /\ [][RawInputNext]_vars

(***************************************************************************)
(* Properties of render_resample_argb_bitmap_hq                            *)
(***************************************************************************)

\* the call has returned and its destination was not empty
HqRan == pc = "done" /\ dest0.width > 0 /\ dest0.height > 0

\* floor(size * 4096 / dsize)
FloorQuot(size, dsize) == (size * 4096) \div dsize

\* the exact ceiling of size * 4096 / dsize
CeilQuot(size, dsize) == (size * 4096 + dsize - 1) \div dsize

\* the tint with r = g = b = a = 1
OpaqueWhite == [r |-> FInt(1), g |-> FInt(1), b |-> FInt(1), a |-> FInt(1)]

\* the cells in the pixel storage of bitmap bm that are pixels, not padding
PixelCells(bm) == {i \in DOMAIN bm.pix : i % bm.rowpixels < bm.width}

\* C1: after a call with a non-empty destination, the average sampler ran with
\* dx, dy the floors of the two quotients iff a floor exceeds 4096 or force is
\* set; otherwise dx, dy are the ceilings of the same quotients and the integer
\* sampler ran iff each destination size is a multiple of the source size, else
\* the bilinear sampler; one sampler ran.
C1_Dispatch ==
    HqRan =>
        LET fdx == FloorQuot(source.width, dest0.width)
            fdy == FloorQuot(source.height, dest0.height)
        IN  IF fdx > 4096 \/ fdy > 4096 \/ force
            THEN sampler = "average" /\ dx = fdx /\ dy = fdy
            ELSE /\ dx = CeilQuot(source.width, dest0.width)
                 /\ dy = CeilQuot(source.height, dest0.height)
                 /\ sampler = IF /\ dest0.width % source.width = 0
                                 /\ dest0.height % source.height = 0
                              THEN "integer" ELSE "bilinear"

\* C2: a call with a non-empty destination that is narrower or lower than the
\* source, sizes up to 16384, force not set, runs the average sampler.
C2_MinifyAverages ==
    ( /\ HqRan
      /\ ~force
      /\ source.width <= 16384 /\ source.height <= 16384
      /\ \/ source.width > dest0.width
         \/ source.height > dest0.height )
    => sampler = "average"

\* the call of claim C3: same size, opaque white tint, force not set
SameSizeCall ==
    /\ HqRan
    /\ dest0.width = source.width
    /\ dest0.height = source.height
    /\ color = OpaqueWhite
    /\ ~force

\* C3: a call with a destination of the size of the source, the opaque white
\* tint and force not set runs the integer sampler, and every destination
\* pixel (x, y) ends equal to the source pixel (x, y).
C3_SameSizeIdentity ==
    SameSizeCall =>
        /\ sampler = "integer"
        /\ \A x \in 0 .. (dest.width - 1), y \in 0 .. (dest.height - 1) :
              dest.pix[y * dest.rowpixels + x]
                  = source.pix[y * source.rowpixels + x]

\* a same-size call on bitmaps of several rows whose rows are padded
C3_Witness ==
    /\ SameSizeCall
    /\ source.width >= 2
    /\ source.height >= 2
    /\ source.rowpixels > source.width
    /\ sampler = "integer"

RECURSIVE AreaSum(_, _)
\* the sum of xchunk * ychunk over the first n visited cells
AreaSum(cells, n) ==
    IF n = 0 THEN 0
    ELSE AreaSum(cells, n - 1) + cells[n].xchunk * cells[n].ychunk

\* a chunk that starts at cur is 1 .. 4096 long and ends in the cell of cur
ChunkInCell(cur, chunk) ==
    /\ chunk >= 1
    /\ chunk <= 4096
    /\ (cur % 4096) + chunk <= 4096

\* C4: when the average sampler ran with steps dx, dy >= 1, for every
\* destination pixel the xchunk * ychunk of the visited source cells sum to
\* dx * dy, every xchunk and ychunk is in 1 .. 4096, and no chunk crosses a
\* multiple of 4096.
C4_ChunksCoverFootprint ==
    (pc = "done" /\ sampler = "average") =>
        /\ dx >= 1
        /\ dy >= 1
        /\ \A x \in 0 .. (dest.width - 1), y \in 0 .. (dest.height - 1) :
              LET cells == AverageCells(x * dx, y * dy, dx, dy)
              IN  /\ AreaSum(cells, Len(cells)) = dx * dy
                  /\ \A k \in DOMAIN cells :
                        /\ ChunkInCell(cells[k].curx, cells[k].xchunk)
                        /\ ChunkInCell(cells[k].cury, cells[k].ychunk)

\* the average sampler ran with a footprint that starts inside a source cell
\* and spans more than one cell on both axes
C4_Witness ==
    /\ pc = "done"
    /\ sampler = "average"
    /\ dx % 4096 # 0
    /\ dy % 4096 # 0
    /\ dx > 4096
    /\ dy > 4096
    /\ dest.width >= 2
    /\ dest.height >= 2

\* the blend of claim C5 of one channel: sample and old destination value
\* weighted a and 256 - a out of 256
Blend256(sample, old, a) == (sample * a + old * (256 - a)) \div 256

\* C5: after a call with a colourless tint whose scaled alpha a is below 256,
\* every channel of every destination pixel is
\* (sample * a + old destination * (256 - a)) / 256, whichever sampler ran.
C5_BlendDividesBy256 ==
    ( /\ HqRan
      /\ sampler \in {"integer", "average", "bilinear"}
      /\ color.r = FInt(1) /\ color.g = FInt(1) /\ color.b = FInt(1)
      /\ Factors(color).a < 256 )
    => \A i \in PixelCells(dest) :
          LET samp == SampleAt(sampler, source, i % dest.rowpixels,
                               i \div dest.rowpixels, dx, dy)
              a    == Factors(color).a
          IN  \A ch \in {"a", "r", "g", "b"} :
                 dest.pix[i][ch] = Blend256(samp[ch], dest0.pix[i][ch], a)

\* C6: a call with a destination of width 0 or of height 0 returns without
\* reading a source pixel and without changing the destination; no sampler
\* runs.
C6_EmptyDestNoOp ==
    (pc = "done" /\ (dest0.width = 0 \/ dest0.height = 0)) =>
        /\ dest = dest0
        /\ sreads = {}
        /\ sampler = "none"

\* a returned call whose destination has width 0 but rows of storage, with a
\* translucent tint and force set
C6_Witness ==
    /\ pc = "done"
    /\ dest0.width = 0
    /\ dest0.height > 0
    /\ DOMAIN dest0.pix # {}
    /\ force
    /\ color.a = FHalf

(***************************************************************************)
(* Properties of render_clip_line                                          *)
(***************************************************************************)

\* the point (x, y) lies in the closed rectangle c
InsideClosed(x, y, c) ==
    FLe(c.x0, x) /\ FLe(x, c.x1) /\ FLe(c.y0, y) /\ FLe(y, c.y1)

\* both endpoints of segment b lie in the closed rectangle c
SegmentInside(b, c) ==
    InsideClosed(b.x0, b.y0, c) /\ InsideClosed(b.x1, b.y1, c)

\* both endpoints of segment b lie strictly beyond the same side of c
SegmentBeyondOneSide(b, c) ==
    \/ FLt(b.x0, c.x0) /\ FLt(b.x1, c.x0)
    \/ FLt(c.x1, b.x0) /\ FLt(c.x1, b.x1)
    \/ FLt(b.y0, c.y0) /\ FLt(b.y1, c.y0)
    \/ FLt(c.y1, b.y0) /\ FLt(c.y1, b.y1)

\* C7: once the first pass of the loop is over, a segment that was inside the
\* closed clip rectangle has been returned as not rejected, with no endpoint
\* replaced and bounds as it was; a segment that was strictly beyond one side
\* with both endpoints has been returned as rejected.
C7_TrivialCases ==
    /\ (pc # "call" /\ SegmentInside(bounds0, clip)) =>
          /\ pc = "done"
          /\ ~rejected
          /\ nrepl = 0
          /\ bounds = bounds0
    /\ (pc # "call" /\ SegmentBeyondOneSide(bounds0, clip)) =>
          /\ pc = "done"
          /\ rejected

\* an accepted segment inside the rectangle with an endpoint on its left edge
\* and the other on its bottom edge
C7_Witness ==
    /\ pc = "done"
    /\ ~rejected
    /\ SegmentInside(bounds0, clip)
    /\ bounds0.x0 = clip.x0
    /\ bounds0.y1 = clip.y1
    /\ bounds0.x0 # bounds0.x1

\* C8: the loop ends within four endpoint replacements and never divides by
\* zero.
C8_FourReplacements ==
    /\ pc # "trap"
    /\ nrepl <= 4

(***************************************************************************)
(* Properties of render_clip_quad                                          *)
(***************************************************************************)

\* p + (q - p) * frac on both coordinates of a corner
Lerp(p, q, frac) ==
    [u |-> FAdd(p.u, FMul(FSub(q.u, p.u), frac)),
     v |-> FAdd(p.v, FMul(FSub(q.v, p.v), frac))]

\* which edges of the clip rectangle c the rectangle b lies past
PastTop(b, c) == FLt(b.y0, c.y0)

PastBottom(b, c) == FLt(c.y1, b.y1)

PastLeft(b, c) == FLt(b.x0, c.x0)

PastRight(b, c) == FLt(c.x1, b.x1)

\* the call has returned not rejected, and the rectangle lay past the edges
\* for which top, bottom, left, right are TRUE and past no other
ClippedAt(top, bottom, left, right) ==
    /\ pc = "done"
    /\ ~rejected
    /\ PastTop(bounds0, clip) = top
    /\ PastBottom(bounds0, clip) = bottom
    /\ PastLeft(bounds0, clip) = left
    /\ PastRight(bounds0, clip) = right

\* the texture coordinates t0 with corners c1 and c2 moved towards corners o1
\* and o2 by frac; no texture coordinates stay none
UvMoved(t0, c1, o1, c2, o2, frac) ==
    IF t0.null THEN t0
    ELSE [t0 EXCEPT ![c1] = Lerp(t0[c1], t0[o1], frac),
                    ![c2] = Lerp(t0[c2], t0[o2], frac)]

\* C9: a rectangle past exactly one edge of the clip rectangle has that one
\* coordinate moved to the clip edge and the other three kept; the two corner
\* UVs on that edge move by frac times the difference to the opposite corner,
\* frac being the displacement of the edge over the extent of the rectangle on
\* that axis, and the two other UVs are kept.
C9_OneEdgeClip ==
    LET b0 == bounds0
        w  == FSub(b0.x1, b0.x0)
        h  == FSub(b0.y1, b0.y0)
    IN  /\ ClippedAt(TRUE, FALSE, FALSE, FALSE) =>
              /\ bounds = [b0 EXCEPT !.y0 = clip.y0]
              /\ texcoords = UvMoved(tex0, "tl", "bl", "tr", "br",
                                     FDiv(FSub(clip.y0, b0.y0), h))
        /\ ClippedAt(FALSE, TRUE, FALSE, FALSE) =>
              /\ bounds = [b0 EXCEPT !.y1 = clip.y1]
              /\ texcoords = UvMoved(tex0, "bl", "tl", "br", "tr",
                                     FDiv(FSub(b0.y1, clip.y1), h))
        /\ ClippedAt(FALSE, FALSE, TRUE, FALSE) =>
              /\ bounds = [b0 EXCEPT !.x0 = clip.x0]
              /\ texcoords = UvMoved(tex0, "tl", "tr", "bl", "br",
                                     FDiv(FSub(clip.x0, b0.x0), w))
        /\ ClippedAt(FALSE, FALSE, FALSE, TRUE) =>
              /\ bounds = [b0 EXCEPT !.x1 = clip.x1]
              /\ texcoords = UvMoved(tex0, "tr", "tl", "br", "bl",
                                     FDiv(FSub(b0.x1, clip.x1), w))

\* a textured rectangle past the top edge only, clipped there by a fraction
\* that is no float exactly, its top UVs moved
C9_Witness ==
    /\ ClippedAt(TRUE, FALSE, FALSE, FALSE)
    /\ ~tex0.null
    /\ clip.y0 = FAboveMinusTwo
    /\ texcoords.tl # tex0.tl
    /\ texcoords.tr # tex0.tr
    /\ texcoords.bl = tex0.bl
    /\ texcoords.br = tex0.br

\* the rectangle b and the rectangle c have no point in common
Apart(b, c) ==
    \/ FCmp(b.y1, c.y0) < 0
    \/ FCmp(b.y0, c.y1) > 0
    \/ FCmp(b.x1, c.x0) < 0
    \/ FCmp(b.x0, c.x1) > 0

\* C10: the call returns true iff bounds.y1 < clip.y0 or bounds.y0 > clip.y1
\* or bounds.x1 < clip.x0 or bounds.x0 > clip.x1, so a rectangle that shares
\* only an edge with the clip rectangle is not rejected; when it returns true
\* bounds and the texture coordinates are as they were.
C10_RejectIffApart ==
    pc = "done" =>
        /\ rejected <=> Apart(bounds0, clip)
        /\ rejected => (bounds = bounds0 /\ texcoords = tex0)

\* a returned call on a textured rectangle whose top edge lies on the bottom
\* edge of the clip rectangle
C10_Witness ==
    /\ pc = "done"
    /\ ~tex0.null
    /\ bounds0.y0 = clip.y1
    /\ FLt(bounds0.y0, bounds0.y1)
    /\ ~rejected

(***************************************************************************)
(* Properties of render_line_to_quad                                       *)
(***************************************************************************)

\* |a|
FAbs(a) == [m |-> Abs(a.m), e |-> a.e]

\* the relative tolerance 2^-10 of the comparisons of computed lengths
RelTol == [m |-> 1, e |-> -10]

\* the absolute tolerance 2^-12 of the comparisons of computed coordinates
AbsTol == [m |-> 1, e |-> -12]

\* v is target up to the relative tolerance
NearRel(v, target) ==
    FLe(FAbs(FSub(v, target)), FMul(FAbs(target), RelTol))

\* v is target up to the absolute tolerance
NearAbs(v, target) == FLe(FAbs(FSub(v, target)), AbsTol)

\* the four corner points of the returned pair of bounds
Corners(q) ==
    { <<q[1].x0, q[1].y0>>, <<q[1].x1, q[1].y1>>,
      <<q[2].x0, q[2].y0>>, <<q[2].x1, q[2].y1>> }

\* the square of the distance between the points p and c
Dist2(p, c) ==
    FAdd(FMul(FSub(p[1], c[1]), FSub(p[1], c[1])),
         FMul(FSub(p[2], c[2]), FSub(p[2], c[2])))

\* the call has returned and its segment was a point
PointCall ==
    /\ pc = "done"
    /\ bounds0.x0 = bounds0.x1
    /\ bounds0.y0 = bounds0.y1

\* the square of half the width
HalfWidth2 == FMul(FMul(width, FHalf), FMul(width, FHalf))

\* C11 as stated: for a point c and width w, every corner returned is at
\* distance w/2 from c (its squared distance is (w/2)^2 up to rounding),
\* whatever length_extension is.
C11_DiamondHalfWidth ==
    PointCall =>
        \A p \in Corners(quad) :
            NearRel(Dist2(p, <<bounds0.x0, bounds0.y0>>), HalfWidth2)

\* C11 amended: for a point c and width w, every corner returned is at
\* distance (w/2) * sqrt(2) from c (its squared distance is w^2 / 2 up to
\* rounding), whatever length_extension is: the diamond has sides of length w.
C11_DiamondSideWidth ==
    PointCall =>
        \A p \in Corners(quad) :
            NearRel(Dist2(p, <<bounds0.x0, bounds0.y0>>),
                    FMul(FInt(2), HalfWidth2))

\* a returned call on the point (5, 5) with width 7/2 and a positive
\* extension, with four different corners
C11_Witness ==
    /\ PointCall
    /\ bounds0.x0 = FInt(5)
    /\ bounds0.y0 = FInt(5)
    /\ width = FSevenHalves
    /\ FLt(FInt(0), length_extension)
    /\ Cardinality(Corners(quad)) = 4


\* the call has returned and its segment was no point
SegmentCall ==
    /\ pc = "done"
    /\ ~(bounds0.x0 = bounds0.x1 /\ bounds0.y0 = bounds0.y1)

\* the segment of the call lies along an axis
AxisAligned == bounds0.x0 = bounds0.x1 \/ bounds0.y0 = bounds0.y1

\* the corner pairs of claim C12, each coordinate rounded to float: with u the
\* unit direction, q0 = p0 - u * e and q1 = p1 + u * e for e half the
\* extension if it is positive and 0 otherwise, n = (w/2) * (u.y, -u.x), the
\* pairs (q0 - n, q0 + n) and (q1 - n, q1 + n)
StatedQuad ==
    LET vx  == FSub(bounds0.x1, bounds0.x0)
        vy  == FSub(bounds0.y1, bounds0.y0)
        len == FSqrt(FAdd(FMul(vx, vx), FMul(vy, vy)))
        ux  == FDiv(vx, len)
        uy  == FDiv(vy, len)
        e   == IF FLt(FInt(0), length_extension)
               THEN FMul(length_extension, FHalf) ELSE FInt(0)
        hw  == FMul(width, FHalf)
        nx  == FMul(hw, uy)
        ny  == FNeg(FMul(hw, ux))
        q0x == FSub(bounds0.x0, FMul(ux, e))
        q0y == FSub(bounds0.y0, FMul(uy, e))
        q1x == FAdd(bounds0.x1, FMul(ux, e))
        q1y == FAdd(bounds0.y1, FMul(uy, e))
    IN  << [x0 |-> FSub(q0x, nx), y0 |-> FSub(q0y, ny),
            x1 |-> FAdd(q0x, nx), y1 |-> FAdd(q0y, ny)],
           [x0 |-> FSub(q1x, nx), y0 |-> FSub(q1y, ny),
            x1 |-> FAdd(q1x, nx), y1 |-> FAdd(q1y, ny)] >>

\* the returned pairs are the stated ones up to rounding, and the two corners
\* of each pair are width apart
NearStatedQuad ==
    /\ \A i \in {1, 2} :
          /\ \A f \in {"x0", "y0", "x1", "y1"} :
                NearAbs(quad[i][f], StatedQuad[i][f])
          /\ NearRel(Dist2(<<quad[i].x0, quad[i].y0>>,
                           <<quad[i].x1, quad[i].y1>>),
                     FMul(width, width))

\* half_width survives the division by the length of the segment and the
\* multiplication by it: length * (half_width / length) rounds to half_width
ScaleIsExact ==
    LET vx  == FSub(bounds0.x1, bounds0.x0)
        vy  == FSub(bounds0.y1, bounds0.y0)
        len == FSqrt(FAdd(FMul(vx, vx), FMul(vy, vy)))
        hw  == FMul(width, FHalf)
    IN  FMul(len, FDiv(hw, len)) = hw

\* C12 as stated: for a segment that is no point the returned pairs are
\* (q0 - n, q0 + n) and (q1 - n, q1 + n), each centred on its endpoint with
\* corners width apart; for every segment along an axis they are these pairs
\* exactly.
C12_QuadExactOnAxes ==
    SegmentCall =>
        /\ NearStatedQuad
        /\ AxisAligned => quad = StatedQuad

\* C12 amended: the same pairs up to rounding; for a segment along an axis
\* they are these pairs exactly when length * (half_width / length) rounds to
\* half_width, as for (0, 0) -> (10, 0) with width 2.
C12_QuadExactWhenScaleIs ==
    SegmentCall =>
        /\ NearStatedQuad
        /\ (AxisAligned /\ ScaleIsExact) => quad = StatedQuad

\* the returned call on (0, 0) -> (10, 0) with width 2 and extension 0, with
\* the corners (0, 1), (0, -1), (10, 1), (10, -1)
C12_Witness ==
    /\ SegmentCall
    /\ bounds0 = [x0 |-> FInt(0), y0 |-> FInt(0),
                  x1 |-> FInt(10), y1 |-> FInt(0)]
    /\ width = FInt(2)
    /\ length_extension = FInt(0)
    /\ quad = << [x0 |-> FInt(0), y0 |-> FInt(1),
                  x1 |-> FInt(0), y1 |-> FInt(-1)],
                 [x0 |-> FInt(10), y0 |-> FInt(1),
                  x1 |-> FInt(10), y1 |-> FInt(-1)] >>



(***************************************************************************)
(* Properties of render_detect_image                                       *)
(***************************************************************************)

\* render_detect_image has returned
DetectReturned == pc = "done" /\ result \in {"PNG", "JPEG", "MSDIB", "UNKNOWN"}

\* the names of the probes in the log, in the order they started
ProbeNames == [i \in 1..Len(log) |-> log[i].probe]

\* C13: the stream is at offset 0 when render_detect_image returns, whatever
\* it returns and whether or not the JPEG probe was aborted by an error, and
\* it is at offset 0 whenever a probe starts.
C13_StreamRewound ==
    /\ pc = "done" => file.pos = 0
    /\ pc \in {"d_create", "d_source", "d_init", "d_dib"} => file.pos = 0
    /\ \A i \in 1..Len(log) : log[i].pos = 0

\* all three probes read bytes of a stream that holds some, the JPEG probe
\* was aborted, and the function returned Unknown
C13_Witness ==
    /\ DetectReturned
    /\ result = "UNKNOWN"
    /\ file.size > 0
    /\ cinfo.fills > 1
    /\ Len(log) = 3

\* C14: the probes run in the order PNG, JPEG, DIB, each only after the ones
\* before it failed; the tag returned is that of the first probe that
\* succeeded, Unknown when all three failed; an aborted JPEG probe counts as
\* a failure, and the decoder has been destroyed exactly once when the JPEG
\* probe is over, after which the DIB probe runs.
C14_FirstMatchWins ==
    /\ \E n \in 0..3 : ProbeNames = SubSeq(<<"png", "jpeg", "dib">>, 1, n)
    /\ \A i \in 1..Len(log) : i < Len(log) => log[i].ok = "no"
    /\ pc \in {"d_source", "d_init", "d_header", "d_notjpeg"}
          => cinfo.destroys = 0 /\ log[Len(log)] = Probe("jpeg", 0, "running")
    /\ pc = "d_notjpeg" => Len(log) = 2
    /\ pc = "d_dib" => cinfo.destroys = 1 /\ log[2].ok = "no"
    /\ pc = "done" =>
          /\ DetectReturned
          /\ result = "PNG" <=> "png" \in file.accepts
          /\ result = "PNG" <=> Len(log) = 1
          /\ result = "JPEG" <=> Len(log) = 2
          /\ result = "JPEG" => log[2].ok = "yes" /\ "jpeg" \in file.accepts
          /\ result \in {"MSDIB", "UNKNOWN"} <=> Len(log) = 3
          /\ result = "MSDIB" => log[3].ok = "yes" /\ "dib" \in file.accepts
          /\ result = "UNKNOWN" => log[3].ok = "no" /\ "dib" \notin file.accepts
          /\ Len(log) > 1 => cinfo.destroys = 1
          /\ Len(log) = 1 => cinfo.destroys = 0

\* a stream that holds a JPEG header and a DIB header: the decoder raised a
\* fatal error while it read the header, and the DIB probe matched
C14_Witness ==
    /\ DetectReturned
    /\ result = "MSDIB"
    /\ "jpeg" \in file.accepts
    /\ cinfo.fills > 0
    /\ cinfo.destroys = 1


(***************************************************************************)
(* Properties of render_load_jpeg and jpeg_corefile_source                 *)
(***************************************************************************)

\* render_load_jpeg has returned
JpegReturned == pc = "j_done"

\* the rows of the bitmap that were stored
RowsStored == {log[i].y : i \in {k \in 1 .. Len(log) : log[k].event = "row"}}

\* every scanline was read and stored and no decoder call raised an error
JpegComplete ==
    /\ cinfo.msg_code = "none"
    /\ cinfo.output_components \in {1, 3}
    /\ cinfo.output_height > 0
    /\ cinfo.output_scanline = cinfo.output_height
    /\ Cardinality(RowsStored) = cinfo.output_height

\* C15: when render_load_jpeg returns, on any path, the decoder has been
\* destroyed exactly once, the scanline buffer and its row are freed if
\* they were allocated, and the bitmap is empty unless the decode was
\* complete.
C15_JpegReleasesAll ==
    JpegReturned =>
        /\ cinfo.destroys = 1
        /\ buffer.array # "live"
        /\ buffer.row # "live"
        /\ ~JpegComplete => bitmap = ResetBitmap

\* render_load_jpeg returned after jpeg_finish_decompress raised its error
\* on an image of four components
C15_Witness ==
    /\ JpegReturned
    /\ cinfo.output_components = 4
    /\ cinfo.msg_code = "JERR_TOO_LITTLE_DATA"

\* a refill is under way or may come, in either function
Refilling == pc \in JpegReaders \cup {"d_header"}

\* this step is a refill whose read returned no byte
EmptyRefill ==
    /\ Refilling
    /\ file.pos = file.size
    /\ \/ cinfo'.fills = cinfo.fills + 1
       \/ cinfo'.msg_code = "JERR_INPUT_EMPTY"

\* C16: a refill whose read returns no byte raises the fatal input-empty
\* error exactly when no refill has completed since the source was
\* initialised, which is when start_of_file is still true; otherwise it
\* warns and supplies the two bytes 0xFF, end-of-image.  A render_load_jpeg
\* whose first read returns no byte returns with an empty bitmap and has
\* stored no pixel.
C16_EmptyRefill ==
    /\ [](Refilling => (cinfo.start_of_file = "true" <=> cinfo.fills = 0))
    /\ [][EmptyRefill =>
            IF cinfo.fills = 0
            THEN /\ cinfo' = Raised(cinfo, "JERR_INPUT_EMPTY")
                 /\ pc' = JumpTarget(pc)
                 /\ file' = file
            ELSE /\ cinfo'.warnings = cinfo.warnings + 1
                 /\ cinfo'.bytes_in_buffer = 2
                 /\ cinfo'.supplied = <<255, 217>>
                 /\ cinfo'.msg_code = cinfo.msg_code
                 /\ pc' = pc]_vars
    /\ [](JpegReturned /\ file.size = 0 /\ cinfo.creates = 1 =>
            /\ bitmap = ResetBitmap
            /\ RowsStored = {}
            /\ cinfo.fills = 0)
    /\ [](JpegReturned /\ cinfo.msg_code = "JERR_INPUT_EMPTY" =>
            /\ bitmap = ResetBitmap
            /\ RowsStored = {}
            /\ cinfo.fills = 0)

\* render_load_jpeg returned on an empty stream after the first refill
\* raised the input-empty error
C16_Witness ==
    /\ JpegReturned
    /\ file.size = 0
    /\ cinfo.msg_code = "JERR_INPUT_EMPTY"
    /\ cinfo.start_of_file = "true"


(***************************************************************************)
(* Properties of the decode entry points                                   *)
(***************************************************************************)

\* render_load_msdib, render_load_jpeg or render_load_png has returned
LoadReturned == pc \in {"m_done", "j_done", "p_done"}

\* the events of the log that are lines given to osd_printf_error
Diagnostics ==
    {i \in 1 .. Len(log) : log[i].event \notin {"row", "pixel"}}

\* the decode failed: an error was reported
DecodeFailed == Diagnostics # {}

PngPixels(p) ==
    {z \in (0 .. PassCount(p) - 1) \X (0 .. p.height - 1)
           \X (0 .. p.width - 1) :
        z[2] < PassHeight(p, z[1]) /\ z[3] < PassWidth(p, z[1])}

\* sample c of a pixel of the image
PngSample(p, z, c) == ImageAt(p, SrcIndex(p, z[1], z[2], z[3]) + c)

\* every pixel's source alpha byte is 0xFF, in an RGB+alpha image
AllOpaque(p) == \A z \in PngPixels(p) : PngSample(p, z, 3) = 255

\* every pixel's R, G, B have the brightness 0xFF
AllBright(p) ==
    \A z \in PngPixels(p) :
        (PngSample(p, z, 0) * 222 + PngSample(p, z, 1) * 707
         + PngSample(p, z, 2) * 71) \div 1000 = 255

\* render_load_png returned after it copied an image of 8-bit samples,
\* which in alpha-overlay mode takes a bitmap of the size of the image
PngCopied ==
    /\ pc = "p_done"
    /\ ~DecodeFailed
    /\ png.bit_depth = 8
    /\ overlay => png.width = bitmap0.width /\ png.height = bitmap0.height

\* C18 as stated: for an RGB+alpha image, in either mode, hasAlpha is
\* false when every source alpha byte is 0xFF and true when one is below,
\* whatever R, G and B are.
C18_HasAlphaFromAlphaBytes ==
    PngCopied /\ png.color_type = 6 =>
        (result = "false" <=> AllOpaque(png))

\* C18: for an RGB+alpha image, in normal mode hasAlpha is false exactly
\* when every source alpha byte is 0xFF; in alpha-overlay mode the source
\* alpha byte is not used and hasAlpha is false exactly when the brightness
\* of every pixel's R, G, B is 0xFF.
C18_HasAlphaByMode ==
    PngCopied /\ png.color_type = 6 =>
        IF overlay
        THEN result = "false" <=> AllBright(png)
        ELSE result = "false" <=> AllOpaque(png)

\* alpha-overlay mode returned true for an RGB+alpha image whose alpha
\* bytes are all 0xFF
C18_Witness ==
    /\ PngCopied
    /\ overlay
    /\ png.color_type = 6
    /\ png.width > 0
    /\ AllOpaque(png)
    /\ result = "true"

\* the assignments to the pixels of the bitmap that the log holds
PixelWrites == {i \in 1 .. Len(log) : log[i].event = "pixel"}

\* copy_png_alpha_to_bitmap was called and returned
AlphaCopied == PngCopied /\ overlay

\* C19: copy_png_alpha_to_bitmap returns false exactly when the AND of the
\* alpha bytes it wrote is 0xFF, that is when each of them is 0xFF, which
\* holds when it wrote none; the bitmap holds each alpha at the place it was
\* written to.
C19_FalseIffAllAlphaFull ==
    AlphaCopied =>
        /\ result = "false" <=> \A i \in PixelWrites : log[i].alpha = 255
        /\ PixelWrites = {} => result = "false"
        /\ \A i \in PixelWrites :
              /\ log[i].y < bitmap.height /\ log[i].x < bitmap.width
              /\ bitmap.pix[log[i].y * bitmap.rowpixels + log[i].x].a
                    = log[i].alpha
        /\ Cardinality(PixelWrites) = png.width * png.height

\* an interlaced palette image of 3 x 3 pixels of which only some have the
\* alpha 0xFF: true is returned
C19_Witness ==
    /\ AlphaCopied
    /\ png.interlace_method = 1
    /\ png.color_type = 3
    /\ Cardinality(PixelWrites) = 9
    /\ \E i \in PixelWrites : log[i].alpha = 255
    /\ \E i \in PixelWrites : log[i].alpha < 255
    /\ result = "true"

\* the red, green and blue of cell k are those the bitmap was passed with
SameColour(k) ==
    /\ bitmap.pix[k].r = bitmap0.pix[k].r
    /\ bitmap.pix[k].g = bitmap0.pix[k].g
    /\ bitmap.pix[k].b = bitmap0.pix[k].b

\* C20: in alpha-overlay mode the bitmap keeps its size and storage at
\* every point of render_load_png, and the red, green and blue of every
\* pixel; when the sizes differ or the bit depth is above 8 the bitmap is
\* as it was passed and false is returned.
C20_OverlayKeepsColour ==
    overlay =>
        /\ bitmap.width = bitmap0.width
        /\ bitmap.height = bitmap0.height
        /\ bitmap.rowpixels = bitmap0.rowpixels
        /\ DOMAIN bitmap.pix = DOMAIN bitmap0.pix
        /\ \A k \in DOMAIN bitmap.pix : SameColour(k)
        /\ pc # "p_done" => bitmap = bitmap0
        /\ pc = "p_done" /\ (png.width # bitmap0.width
                             \/ png.height # bitmap0.height
                             \/ png.bit_depth > 8)
              => bitmap = bitmap0 /\ result = "false"

\* alpha-overlay mode changed the alpha of a pixel of the bitmap
C20_Witness ==
    /\ AlphaCopied
    /\ bitmap # bitmap0
    /\ \E k \in DOMAIN bitmap.pix : bitmap.pix[k].a # bitmap0.pix[k].a


(***************************************************************************)
(* Properties of the samplers on large sizes                               *)
(***************************************************************************)

\* the call of claim C21: an integer magnification, force not set
MagnifyCall ==
    /\ HqRan
    /\ ~force
    /\ color = OpaqueWhite
    /\ dest0.width % source.width = 0
    /\ dest0.height % source.height = 0

\* C21: after a call whose destination width and height are multiples kx and
\* ky of the source's, with the opaque white tint and force not set, every
\* destination pixel (x, y) equals the source pixel (x div kx, y div ky).
C21_IntegerMagnifyExact ==
    MagnifyCall =>
        LET kx == dest0.width \div source.width
            ky == dest0.height \div source.height
        IN  \A x \in 0 .. (dest.width - 1), y \in 0 .. (dest.height - 1) :
                dest.pix[y * dest.rowpixels + x]
                    = source.pix[(y \div ky) * source.rowpixels + (x \div kx)]

\* C22: after a call on a non-empty source and destination, with force set
\* or not, every source pixel the sampler read has its column below the
\* width of the source and its row below the height.
C22_ReadsInsideSource ==
    HqRan =>
        \A off \in sreads :
            /\ off >= 0
            /\ off % source.rowpixels < source.width
            /\ off \div source.rowpixels < source.height


\* the position of the sample of destination pixel i along one axis, in 1/4096
\* of a source pixel: the centre of the pixel's span, less half a source pixel
Centre(i, step) == i * step + (step \div 2) - 2048

\* the positions <<cury or nexty, curx or nextx>> of the four neighbours
Neighbours(x, y) ==
    LET cx == Centre(x, dx)
        cy == Centre(y, dy)
    IN  << <<cy, cx>>, <<cy, cx + 4096>>, <<cy + 4096, cx>>,
           <<cy + 4096, cx + 4096>> >>

\* a neighbour position lies on a pixel of the source
OnSource(pos) ==
    /\ pos[1] >= 0
    /\ pos[1] < source.height * 4096
    /\ pos[2] >= 0
    /\ pos[2] < source.width * 4096

\* the pixel a neighbour contributes: that of the source at its position, or
\* (0, 0, 0, 0) when the position is off the source
Contribution(pos) ==
    IF OnSource(pos)
    THEN source.pix[(pos[1] \div 4096) * source.rowpixels + (pos[2] \div 4096)]
    ELSE RgbZero

\* C23: in the bilinear sampler, for every destination pixel, the four weights
\* sum to 4096 * 4096; a neighbour whose position is negative or not below the
\* source size times 4096 is not read and contributes (0, 0, 0, 0), the others
\* are read at their own pixel; every channel after the shift by 24 is at most
\* 255 and is the weighted sum of the contributions divided by 2^24.
C23_BilinearWeights ==
    (HqRan /\ sampler = "bilinear") =>
        \A x \in 0 .. (dest.width - 1), y \in 0 .. (dest.height - 1) :
            LET taps == BilinearTaps(source, x, y, dx, dy)
                nb   == Neighbours(x, y)
                smp  == BilinearSample(source, x, y, dx, dy)
                W(ch) == [k \in 1 .. 4 |->
                            <<taps[k][2], Contribution(nb[k])[ch]>>]
            IN  /\ taps[1][2] + taps[2][2] + taps[3][2] + taps[4][2] = 16777216
                /\ \A k \in 1 .. 4 : taps[k][2] >= 0
                /\ \A k \in 1 .. 4 :
                      IF OnSource(nb[k])
                      THEN /\ taps[k][1] = (nb[k][1] \div 4096) * source.rowpixels
                                            + (nb[k][2] \div 4096)
                           /\ taps[k][1] \in sreads
                      ELSE taps[k][1] = -1
                /\ \A ch \in {"a", "r", "g", "b"} :
                      /\ smp[ch] \in 0 .. 255
                      /\ smp[ch] = WeightedQuot(W(ch), 16777216)
                /\ color = OpaqueWhite =>
                      dest.pix[y * dest.rowpixels + x] = smp

\* a bilinear call in which one destination pixel has a neighbour off the
\* source on each side of zero and of the far edge, and one read with a weight
C23_Witness ==
    /\ HqRan
    /\ sampler = "bilinear"
    /\ color = OpaqueWhite
    /\ \E x \in 0 .. (dest.width - 1), y \in 0 .. (dest.height - 1) :
          /\ Neighbours(x, y)[1][2] < 0
          /\ BilinearTaps(source, x, y, dx, dy)[2][1] >= 0
          /\ BilinearTaps(source, x, y, dx, dy)[2][2] > 0
    /\ \E x \in 0 .. (dest.width - 1), y \in 0 .. (dest.height - 1) :
          /\ Neighbours(x, y)[2][2] >= source.width * 4096
          /\ BilinearTaps(source, x, y, dx, dy)[1][1] >= 0
    /\ sreads # {}


\* the assignments of the log that went to row y and column x
WritesTo(y, x) == {i \in PixelWrites : log[i].y = y /\ log[i].x = x}

\* C24: after copy_png_alpha_to_bitmap on an interlaced image of any width
\* and height of at least 1, every position (y_trans(y), x_trans(x)) written
\* over the seven passes lies inside the image, and every pixel of the image
\* is written exactly once.
C24_InterlaceCoversOnce ==
    (AlphaCopied /\ png.interlace_method # 0 /\ png.width >= 1
        /\ png.height >= 1) =>
        /\ \A i \in PixelWrites :
              /\ log[i].x \in 0 .. (png.width - 1)
              /\ log[i].y \in 0 .. (png.height - 1)
        /\ \A y \in 0 .. (png.height - 1), x \in 0 .. (png.width - 1) :
              Cardinality(WritesTo(y, x)) = 1
        /\ Cardinality(PixelWrites) = png.width * png.height

\* an interlaced overlay of an image wider than one 8 by 8 block and of
\* fewer than 8 rows was copied, each pixel written
C24_Witness ==
    /\ AlphaCopied
    /\ png.interlace_method # 0
    /\ png.width = 9
    /\ png.height = 4
    /\ Cardinality(PixelWrites) = 36


(***************************************************************************)
(* Properties of render_clip_quad on several edges                         *)
(***************************************************************************)

FMax(a, b) == IF FLt(a, b) THEN b ELSE a

FMin(a, b) == IF FLt(b, a) THEN b ELSE a

\* the rectangle that b and c have in common
Intersection(b, c) ==
    [x0 |-> FMax(b.x0, c.x0), y0 |-> FMax(b.y0, c.y0),
     x1 |-> FMin(b.x1, c.x1), y1 |-> FMin(b.y1, c.y1)]

\* where v lies between lo and hi, as a fraction of the extent; on an extent
\* of zero the near side is 0 and the far side 1
Fraction(v, lo, hi, far) ==
    IF lo = hi THEN (IF far THEN FInt(1) ELSE FInt(0))
    ELSE FDiv(FSub(v, lo), FSub(hi, lo))

\* the bilinear interpolation of the four corner values at (s, t)
Bilinear(tl, tr, bl, br, s, t) ==
    LET top == FAdd(tl, FMul(FSub(tr, tl), s))
        bot == FAdd(bl, FMul(FSub(br, bl), s))
    IN  FAdd(top, FMul(FSub(bot, top), t))

\* the UV p is the bilinear interpolation of the corners of t0 at (s, t), up
\* to the rounding of the float operations
UvIsBilinear(p, t0, s, t) ==
    /\ NearAbs(p.u, Bilinear(t0.tl.u, t0.tr.u, t0.bl.u, t0.br.u, s, t))
    /\ NearAbs(p.v, Bilinear(t0.tl.v, t0.tr.v, t0.bl.v, t0.br.v, s, t))

\* C25: after a call that did not reject, with an ordered clip rectangle,
\* bounds is the intersection of the original rectangle with the clip
\* rectangle, ordered and inside the clip rectangle; each corner UV is the
\* bilinear interpolation of the four original corner UVs at the corner's new
\* position within the original rectangle (up to float rounding), however
\* many edges were clipped; a second call with the same clip rectangle does
\* not reject and changes nothing.
C25_ClipIsIntersection ==
    (pc = "done" /\ ~rejected) =>
        LET b0 == bounds0
            s0 == Fraction(bounds.x0, b0.x0, b0.x1, FALSE)
            s1 == Fraction(bounds.x1, b0.x0, b0.x1, TRUE)
            t0 == Fraction(bounds.y0, b0.y0, b0.y1, FALSE)
            t1 == Fraction(bounds.y1, b0.y0, b0.y1, TRUE)
        IN  /\ bounds = Intersection(b0, clip)
            /\ FLe(bounds.x0, bounds.x1)
            /\ FLe(bounds.y0, bounds.y1)
            /\ FLe(clip.x0, bounds.x0)
            /\ FLe(bounds.x1, clip.x1)
            /\ FLe(clip.y0, bounds.y0)
            /\ FLe(bounds.y1, clip.y1)
            /\ texcoords.null = tex0.null
            /\ ~tex0.null =>
                  /\ UvIsBilinear(texcoords.tl, tex0, s0, t0)
                  /\ UvIsBilinear(texcoords.tr, tex0, s1, t0)
                  /\ UvIsBilinear(texcoords.bl, tex0, s0, t1)
                  /\ UvIsBilinear(texcoords.br, tex0, s1, t1)
            /\ ~QuadRejected(bounds, clip)
            /\ QuadClipped(bounds, texcoords, clip)
                  = [b |-> bounds, t |-> texcoords]

\* a textured rectangle whose corner UVs are not those of a parallelogram,
\* clipped at all four edges in one call
C25_Witness ==
    /\ ClippedAt(TRUE, TRUE, TRUE, TRUE)
    /\ ~tex0.null
    /\ tex0.br.u = FInt(5)
    /\ clip.x0 = FAboveMinusTwo
    /\ \A k \in {"tl", "tr", "bl", "br"} : texcoords[k] # tex0[k]


(***************************************************************************)
(* Properties of render_clip_line: what is returned                        *)
(***************************************************************************)

\* a coordinate of the model as <<n, k>>, standing for n + k * 2^-23: the
\* coordinates are whole numbers but for the float next above -2
Units(v) ==
    IF v = FAboveMinusTwo THEN <<-2, 1>>
    ELSE <<CHOOSE n \in (-MaxCoord) .. MaxCoord : FInt(n) = v, 0>>

\* the side of the line through the whole-numbered segment b on which the
\* point (cx, cy) lies: the sign of the cross product, computed exactly
SideOf(b, cx, cy) ==
    LET ddx   == Units(b.x1)[1] - Units(b.x0)[1]
        ddy   == Units(b.y1)[1] - Units(b.y0)[1]
        whole == ddx * (Units(cy)[1] - Units(b.y0)[1])
                 - ddy * (Units(cx)[1] - Units(b.x0)[1])
        part  == ddx * Units(cy)[2] - ddy * Units(cx)[2]
    IN  IF whole # 0 THEN Sgn(whole) ELSE Sgn(part)

\* the sides of the four corners of c
CornerSides(b, c) ==
    {SideOf(b, c.x0, c.y0), SideOf(b, c.x1, c.y0),
     SideOf(b, c.x0, c.y1), SideOf(b, c.x1, c.y1)}

\* the segment b has no point in the closed rectangle c: an edge line of c
\* or the line of b separates them
NoPointInside(b, c) ==
    \/ SegmentBeyondOneSide(b, c)
    \/ CornerSides(b, c) = {1}
    \/ CornerSides(b, c) = {-1}

\* the point (x, y) is on the segment b, up to the rounding of the floats
OnSegment(x, y, b) ==
    /\ NearAbs(FSub(FMul(FSub(b.x1, b.x0), FSub(y, b.y0)),
                    FMul(FSub(b.y1, b.y0), FSub(x, b.x0))), FInt(0))
    /\ FLe(FSub(FMin(b.x0, b.x1), AbsTol), x)
    /\ FLe(x, FAdd(FMax(b.x0, b.x1), AbsTol))
    /\ FLe(FSub(FMin(b.y0, b.y1), AbsTol), y)
    /\ FLe(y, FAdd(FMax(b.y0, b.y1), AbsTol))

\* the segment b runs in the direction of the segment b0, or is a point
SameDirection(b, b0) ==
    FLe(FInt(0),
        FAdd(FMul(FSub(b.x1, b.x0), FSub(b0.x1, b0.x0)),
             FMul(FSub(b.y1, b.y0), FSub(b0.y1, b0.y0))))

\* C26: with an ordered clip rectangle, the call returns true exactly when
\* the original segment has no point in the closed clip rectangle; when it
\* returns false both endpoints lie in the closed clip rectangle and on the
\* original segment (up to float rounding), endpoint 0 not past endpoint 1.
C26_RejectIffOutside ==
    pc = "done" =>
        /\ rejected <=> NoPointInside(bounds0, clip)
        /\ ~rejected =>
              /\ InsideClosed(bounds.x0, bounds.y0, clip)
              /\ InsideClosed(bounds.x1, bounds.y1, clip)
              /\ OnSegment(bounds.x0, bounds.y0, bounds0)
              /\ OnSegment(bounds.x1, bounds.y1, bounds0)
              /\ SameDirection(bounds, bounds0)

\* the call returned false after it replaced both endpoints
C26_Witness ==
    /\ pc = "done"
    /\ ~rejected
    /\ bounds.x0 # bounds0.x0
    /\ bounds.x1 # bounds0.x1
    /\ bounds.y0 # bounds.y1
    /\ nrepl >= 2


(***************************************************************************)
(* Properties of jpeg_corefile_source::do_skip                             *)
(***************************************************************************)

\* do_skip has returned
SkipReturned == pc = "s_done"

\* C27: do_skip(n) with n > 0 terminates on every stream, at the end of the
\* stream too, where each refill supplies two bytes; bytes_in_buffer never
\* goes below zero; on return the bytes that were in the buffer plus the
\* bytes its refills delivered, less the bytes left in the buffer, are
\* exactly n; with n <= 0 it refills nothing and leaves bytes_in_buffer and
\* the stream as they were.
C27_SkipDiscardsExactly ==
    /\ [](cinfo.bytes_in_buffer >= 0)
    /\ [](SkipReturned /\ cinfo.requested > 0 =>
            cinfo.had + cinfo.delivered - cinfo.bytes_in_buffer
                = cinfo.requested)
    /\ [](SkipReturned /\ cinfo.requested <= 0 =>
            /\ cinfo.bytes_in_buffer = cinfo.had
            /\ cinfo.refills = 0)
    /\ [][pc = "s_read" /\ pc' = "s_done" =>
            /\ file' = file
            /\ cinfo'.bytes_in_buffer = cinfo.bytes_in_buffer
            /\ cinfo'.fills = cinfo.fills]_vars
    /\ (pc = "s_loop") ~> (pc \in {"s_done", "s_raised"})

\* do_skip returned after it went through refills at the end of the stream,
\* each of two bytes, to skip more than the stream held
C27_Witness ==
    /\ SkipReturned
    /\ cinfo.requested = 7
    /\ cinfo.had = 1
    /\ cinfo.refills = 3
    /\ cinfo.delivered = 6
    /\ cinfo.warnings >= 3
    /\ cinfo.bytes_in_buffer = 0


(***************************************************************************)
(* Properties of the GD-ROM DMA                                            *)
(***************************************************************************)

\* C28: the assertion atapi_xferlen >= 0 at the start of atapi_xfer_end
\* holds in every reachable state: it has not failed, and whenever the timer
\* is set to fire atapi_xferlen is not negative, whatever was written to
\* SB_GDLEN and however the register writes and the callbacks interleave.
C28_XferLenNotNegative ==
    /\ assertion # "atapi_xfer_end"
    /\ atapi_timer.enabled => atapi_xferlen >= 0

\* the DMA that is running or has ended was started after a write of a
\* positive multiple of 2048 to SB_GDLEN, and no register was written since
QuietDma ==
    /\ quiet
    /\ g1bus_regs["SB_GDLEN"] > 0
    /\ g1bus_regs["SB_GDLEN"] % 2048 = 0

\* the callback that ends a transfer has run
DmaEnded == ~atapi_timer.enabled

\* C29: after the guest wrote a positive multiple L of 2048 to SB_GDLEN and
\* started a DMA, with no further register write, the callbacks transfer
\* sectors to consecutive 2048-byte destinations from SB_GDSTAR on, with
\* atapi_xferbase = SB_GDSTAR + atapi_xfercomplete after each, and no more
\* than L/2048 of them; once the transfer has ended exactly L/2048 sectors
\* were transferred, atapi_xfercomplete = L, SB_GDST reads 0, IST_DMA_GDROM
\* is set, DMACK is deasserted and the timer is stopped.
C29_DmaTransfersLength ==
    QuietDma =>
        LET L == g1bus_regs["SB_GDLEN"]
            star == g1bus_regs["SB_GDSTAR"]
        IN  /\ assertion = "none"
            /\ atapi_xferbase = star + atapi_xfercomplete
            /\ atapi_xfercomplete = 2048 * Len(ddt)
            /\ \A i \in 1 .. Len(ddt) : ddt[i] = star + 2048 * (i - 1)
            /\ Len(ddt) <= L \div 2048
            /\ DmaEnded =>
                  /\ Len(ddt) = L \div 2048
                  /\ atapi_xfercomplete = L
                  /\ G1CtrlR("SB_GDST") = 0
                  /\ "IST_DMA_GDROM" \in dc_sysctrl_regs
                  /\ dmack = 0


(***************************************************************************)
(* Properties of rawinput_module::handle_input_event                       *)
(***************************************************************************)

\* C30: for any sequence of raw-input, arrival and removal events with any
\* handle values, the assertions of attach_device and detach_device never
\* fail; a removal leaves the matched device with its input state zero and
\* no handle; no raw-input event is queued to a device without a handle,
\* and a device gets a handle back only from an arrival with its device ID;
\* an event that returns false changes no device.
C30_AttachDetachAssertions ==
    /\ [](assertion = "none")
    /\ [][\A i \in DOMAIN devicelist :
            /\ (devicelist[i].m_handle # 0 /\ devicelist'[i].m_handle = 0)
                  => devicelist'[i].state = 0
            /\ devicelist'[i].queued > devicelist[i].queued
                  => devicelist[i].m_handle # 0
            /\ (devicelist[i].m_handle = 0 /\ devicelist'[i].m_handle # 0)
                  => handled' = "true"]_vars
    /\ [][handled' = "false" => devicelist' = devicelist]_vars

====
